---- MODULE Spec2Model ----
(***************************************************************************)
(* Model of the Metabase collection permission graph resource              *)
(* (internal/provider/collection_graph_resource.go): the resource tree     *)
(* built from the collection listing, name matching, ownership, the        *)
(* expansion of an explicit edge set into the submitted graph, the state   *)
(* filter, and the Create / Read / Update / Delete / ImportState handlers  *)
(* acting on a revisioned server graph.                                    *)
(*                                                                         *)
(* Representation:                                                         *)
(*  - a types.Int64 / types.String value is a record [null, v]; a null     *)
(*    value carries the zero value, as ValueInt64 / ValueString return it. *)
(*  - a Go string holding a number is a TLA+ string; strconv.Itoa,         *)
(*    strconv.FormatInt and strconv.Atoi are tables over the strings used. *)
(*  - a location "/5/16/" is the sequence of its segments <<"5", "16">>;   *)
(*    a nil, empty or "/" location is <<>>.                                *)
(*  - a name is a sequence of one-character strings.                       *)
(*  - a graph's Groups map is the set of its entries                       *)
(*    [group, collection, permission], at most one per (group, collection).*)
(***************************************************************************)
EXTENDS Integers, Sequences, FiniteSets, TLC

VARIABLES
    listing,    \* the collections the server lists (fixed during a behaviour)
    groupNames, \* server side: group id -> display name (fixed during a behaviour)
    srvRev,     \* server side: revision of the collection permission graph
    srvGraph,   \* server side: entries of the collection permission graph
    rec,        \* the Terraform state of the graph resource (the local record)
    last,       \* what the last handler did: plan, network calls, outcome
    xin,        \* expansion check: the explicit input
    xout,       \* expansion check: the results computed so far
    users,      \* server side: user id -> user
    userRec,    \* the Terraform state of the user resource
    userLast,   \* what the last user handler did
    memberships,\* server side: user id -> the user's group memberships, in order
    mem         \* membership resources: record, call in flight, last outcome

vars == <<listing, groupNames, srvRev, srvGraph, rec, last, xin, xout,
          users, userRec, userLast, memberships, mem>>

----------------------------------------------------------------------------
(* Framework values                                                        *)

Int64Value(n) == [null |-> FALSE, v |-> n]

Int64Null == [null |-> TRUE, v |-> 0]

StringValue(s) == [null |-> FALSE, v |-> s]

StringNull == [null |-> TRUE, v |-> ""]

BoolNull == "null"

BoolValue(b) == IF b THEN "true" ELSE "false"

\* One edge of the Terraform model (CollectionPermission).
Perm(g, c, p) == [group |-> g, collection |-> c, permission |-> p]

----------------------------------------------------------------------------
(* Program constants                                                       *)

PublicRoot == 5

DraftRoot == 4

LevelRead == "read"

LevelWrite == "write"

LevelNone == "none"

----------------------------------------------------------------------------
(* strconv                                                                 *)

\* The integers that occur as user, group or collection ids.
KnownInts == {0, 1, 2, 4, 5, 7, 8, 9, 16, 17, 60, 61}

Itoa(n) ==
    CASE n = 0 -> "0" [] n = 1 -> "1" [] n = 2 -> "2" [] n = 4 -> "4" [] n = 5 -> "5"
      [] n = 7 -> "7" [] n = 8 -> "8" [] n = 9 -> "9" [] n = 16 -> "16"
      [] n = 17 -> "17" [] n = 60 -> "60" [] n = 61 -> "61"

\* strconv.Atoi: [ok, v]. "016" and "-3" parse, "x" and "root" do not.
Atoi(s) ==
    IF \E n \in KnownInts : Itoa(n) = s
    THEN [ok |-> TRUE, v |-> CHOOSE n \in KnownInts : Itoa(n) = s]
    ELSE IF s = "016" THEN [ok |-> TRUE, v |-> 16]
    ELSE IF s = "-3" THEN [ok |-> TRUE, v |-> -3]
    ELSE [ok |-> FALSE, v |-> 0]

----------------------------------------------------------------------------
(* Name Matcher                                                            *)

ToLower(ch) == IF ch = "A" THEN "a" ELSE IF ch = "B" THEN "b" ELSE ch

IsLetterOrDigit(ch) == ch \in {"A", "B", "a", "b", "n", "1"}

RECURSIVE MapLower(_)
MapLower(s) == IF s = <<>> THEN <<>> ELSE <<ToLower(Head(s))>> \o MapLower(Tail(s))

RECURSIVE RemoveAll(_, _)
RemoveAll(s, ch) ==
    IF s = <<>> THEN <<>>
    ELSE IF Head(s) = ch THEN RemoveAll(Tail(s), ch)
    ELSE <<Head(s)>> \o RemoveAll(Tail(s), ch)

RECURSIVE KeepAlnum(_)
KeepAlnum(s) ==
    IF s = <<>> THEN <<>>
    ELSE IF IsLetterOrDigit(Head(s)) THEN <<Head(s)>> \o KeepAlnum(Tail(s))
    ELSE KeepAlnum(Tail(s))

\* Faulty variant: the name is not lowercased.
normalizeNameCaseSensitive(name) ==
    KeepAlnum(RemoveAll(RemoveAll(RemoveAll(name, " "), "_"), "-"))

normalizeName(name) ==
    KeepAlnum(RemoveAll(RemoveAll(RemoveAll(MapLower(name), " "), "_"), "-"))

----------------------------------------------------------------------------
(* Resource Tree Builder                                                   *)

IntId(n) == [isInt |-> TRUE, n |-> n, s |-> ""]

StrId(s) == [isInt |-> FALSE, n |-> 0, s |-> s]

\* One element of the listing (metabase.Collection).
Coll(id, name, location, personal) ==
    [id |-> id, name |-> name, location |-> location, personal |-> personal]

CollectionInfo(id, parentId, name, location) ==
    [ID |-> id, ParentID |-> parentId, Name |-> name, Location |-> location]

\* Parent id derived from the last segment of the location, -1 if it does not parse.
DeriveParentId(location) ==
    LET a == Atoi(location[Len(location)])
    IN IF a.ok THEN a.v ELSE -1

\* The numeric id of a listed collection: [ok, v].
CollectionIdOf(id) ==
    IF id.isInt THEN [ok |-> TRUE, v |-> id.n]
    ELSE IF id.s # "root" THEN Atoi(id.s)
    ELSE [ok |-> FALSE, v |-> 0]

\* Faulty variant: a collection whose parent id cannot be derived is kept.
SkipCollectionKeepMalformed(c) ==
    \/ c.personal
    \/ c.location = <<>>
    \/ ~CollectionIdOf(c.id).ok

SkipCollection(c) ==
    \/ c.personal
    \/ c.location = <<>>
    \/ DeriveParentId(c.location) < 0
    \/ ~CollectionIdOf(c.id).ok

RECURSIVE BuildChildCollections(_, _)
BuildChildCollections(collections, i) ==
    IF i = 0 THEN <<>>
    ELSE LET m == BuildChildCollections(collections, i - 1)
             c == collections[i]
             id == CollectionIdOf(c.id).v
         IN IF SkipCollection(c) THEN m
            ELSE [x \in (DOMAIN m) \cup {id} |->
                    IF x = id
                    THEN CollectionInfo(id, DeriveParentId(c.location), c.name, c.location)
                    ELSE m[x]]

\* The map collection id -> CollectionInfo of a successful listing.
fetchChildCollections(collections) == BuildChildCollections(collections, Len(collections))

----------------------------------------------------------------------------
(* Permission graph entries                                                *)

Entry(g, c, p) == [group |-> g, collection |-> c, permission |-> p]

HasEntry(groups, g, c) == \E t \in groups : t.group = g /\ t.collection = c

GetEntry(groups, g, c) ==
    (CHOOSE t \in groups : t.group = g /\ t.collection = c).permission

\* colPermMap[c] = p in groups[g]: the entry for (g, c) is replaced.
SetEntry(groups, g, c, p) ==
    {t \in groups : ~(t.group = g /\ t.collection = c)} \cup {Entry(g, c, p)}

----------------------------------------------------------------------------
(* Permission Expander: makeCollectionPermissionsGraphFromModel            *)

\* Faulty variant: the plan loop without the duplicate check.
PlanHasErrorNoDuplicateCheck(permissions) ==
    \E p \in permissions : p.group.null \/ p.collection.null

\* Faulty variant: the plan loop without the null checks.
PlanHasErrorNoNullCheck(permissions) ==
    \E p, q \in permissions :
        /\ p # q
        /\ p.group.v = q.group.v
        /\ p.collection.v = q.collection.v

\* The plan loop ends in an error: a null group, a null collection, or a
\* (group, collection) pair that was already put in the map.
PlanHasError(permissions) ==
    \/ \E p \in permissions : p.group.null \/ p.collection.null
    \/ \E p, q \in permissions :
          /\ p # q
          /\ p.group.v = q.group.v
          /\ p.collection.v = q.collection.v

\* Faulty variant: none levels are left out of the map.
SeedGroupsDropNone(permissions) ==
    {Entry(Itoa(p.group.v), p.collection.v, p.permission) :
        p \in {q \in permissions : q.permission # LevelNone}}

\* The permissions map built from the plan.
SeedGroups(permissions) ==
    {Entry(Itoa(p.group.v), p.collection.v, p.permission) : p \in permissions}

\* Faulty variant: the flag is not read.
ApplyChildPermissionsAlways(flag) == TRUE

\* Faulty variant: every known group is tracked, declared or not.
groupIdsSetEveryGroup(permissions) == {7, 8}

\* applyChildPermissions: an unset flag counts as true.
ApplyChildPermissions(flag) == IF flag = BoolNull THEN TRUE ELSE flag = BoolValue(TRUE)

groupIdsSet(permissions) ==
    {p.group.v : p \in {q \in permissions : ~q.group.null}}

\* Faulty variant: a failed lookup yields the name all the same.
fetchGroupNamesDespiteFailure(groupIds, names, down) ==
    [g \in {h \in groupIds : h \in DOMAIN names} |-> names[g]]

\* fetchGroupNames: the names of the groups whose lookup answered 200 with a body.
\* down: the group ids whose lookup failed (transport error or another status).
fetchGroupNames(groupIds, names, down) ==
    [g \in {h \in groupIds : h \in DOMAIN names /\ h \notin down} |-> names[g]]

IsAnchorChild(info) == info.ParentID = PublicRoot \/ info.ParentID = DraftRoot

NameMatches(gnames, g, info) ==
    /\ g \in DOMAIN gnames
    /\ normalizeName(gnames[g]) = normalizeName(info.Name)

\* Faulty variant: every group of the plan counts as matching.
MatchingGroupsAnyName(info, groupIds, gnames) == groupIds

\* The groups of the plan whose name is equivalent to the collection's name.
MatchingGroups(info, groupIds, gnames) ==
    {g \in groupIds : NameMatches(gnames, g, info)}

\* collectionIdToGroupId: each anchor child with a matching group is given the
\* first matching group met while ranging over groupIdsSet; Go's map order is
\* unspecified, so any matching group can be the one recorded.
OwnershipMaps(cmap, groupIds, gnames) ==
    LET owned == {c \in DOMAIN cmap :
                     IsAnchorChild(cmap[c]) /\ MatchingGroups(cmap[c], groupIds, gnames) # {}}
    IN {f \in [owned -> groupIds] :
           \A c \in owned : f[c] \in MatchingGroups(cmap[c], groupIds, gnames)}

isExplicitPermission(permissions, groupId, colIdStr) ==
    \E p \in permissions :
        /\ ~p.group.null /\ ~p.collection.null
        /\ p.group.v = groupId
        /\ p.collection.v = colIdStr

\* Level given to a group on a direct child of Public or Draft.
DirectChildPermission(gnames, g, info) ==
    IF NameMatches(gnames, g, info) THEN LevelWrite ELSE LevelRead

\* Faulty variant: the iteration without the explicit permission check.
ApplyDirectChildNoExplicitCheck(groups, permissions, cmap, gnames, c, g) ==
    LET cs == Itoa(c)
        gs == Itoa(g)
        exists == HasEntry(groups, gs, cs)
        permission == DirectChildPermission(gnames, g, cmap[c])
    IN IF ~exists \/ (exists /\ GetEntry(groups, gs, cs) = LevelRead
                               /\ permission = LevelWrite)
       THEN SetEntry(groups, gs, cs, permission)
       ELSE groups

\* One (child, group) iteration of the direct children loop.
ApplyDirectChild(groups, permissions, cmap, gnames, c, g) ==
    LET cs == Itoa(c)
        gs == Itoa(g)
        exists == HasEntry(groups, gs, cs)
        permission == DirectChildPermission(gnames, g, cmap[c])
    IN IF isExplicitPermission(permissions, g, cs) THEN groups
       ELSE IF ~exists \/ (exists /\ GetEntry(groups, gs, cs) = LevelRead
                                  /\ permission = LevelWrite)
            THEN SetEntry(groups, gs, cs, permission)
            ELSE groups

RECURSIVE DirectChildrenLoop(_, _, _, _, _)
\* The iterations for the (collection, group) pairs of todo. The order is Go's
\* map order; each iteration reads and writes only the entry of its own pair.
DirectChildrenLoop(groups, permissions, cmap, gnames, todo) ==
    IF todo = {} THEN groups
    ELSE LET x == CHOOSE y \in todo : TRUE
         IN DirectChildrenLoop(
                ApplyDirectChild(groups, permissions, cmap, gnames, x[1], x[2]),
                permissions, cmap, gnames, todo \ {x})

\* The loop over the direct children of Public (5) and Draft (4).
ApplyDirectChildren(groups, permissions, cmap, groupIds, gnames) ==
    DirectChildrenLoop(groups, permissions, cmap, gnames,
        {x \in (DOMAIN cmap) \X groupIds : IsAnchorChild(cmap[x[1]])})

\* The group collection id read from a location /5/X/... or /4/X/..., -1 if none.
groupCollectionIdFromLocation(location) ==
    IF Len(location) >= 1 /\ location[1] \in {Itoa(PublicRoot), Itoa(DraftRoot)}
    THEN IF Len(location) >= 2 /\ Atoi(location[2]).ok
         THEN Atoi(location[2]).v
         ELSE -1
    ELSE -1

\* Faulty variant: a collection is never taken out of the recursive loop.
isChildCollectionInPlanNever(permissions, colIdStr) == FALSE

isChildCollectionInPlan(permissions, colIdStr) ==
    \E p \in permissions :
        ~p.group.null /\ ~p.collection.null /\ p.collection.v = colIdStr

\* The collections the recursive loop writes entries for.
RecursiveTargets(permissions, cmap, owner) ==
    {c \in DOMAIN cmap :
        /\ groupCollectionIdFromLocation(cmap[c].Location) >= 0
        /\ groupCollectionIdFromLocation(cmap[c].Location) \in DOMAIN owner
        /\ ~isChildCollectionInPlan(permissions, Itoa(c))}

\* Faulty variant: the owning group is given read like every other group.
RecursivePermissionReadOnly(owner, cmap, c, g) == LevelRead

\* Level given to a group on a collection below a group collection.
RecursivePermission(owner, cmap, c, g) ==
    IF g = owner[groupCollectionIdFromLocation(cmap[c].Location)]
    THEN LevelWrite ELSE LevelRead

\* One (collection, group) iteration of the recursive loop.
ApplyRecursiveChild(groups, permissions, cmap, owner, c, g) ==
    IF isExplicitPermission(permissions, g, Itoa(c)) THEN groups
    ELSE SetEntry(groups, Itoa(g), Itoa(c), RecursivePermission(owner, cmap, c, g))

RECURSIVE RecursiveLoop(_, _, _, _, _)
RecursiveLoop(groups, permissions, cmap, owner, todo) ==
    IF todo = {} THEN groups
    ELSE LET x == CHOOSE y \in todo : TRUE
         IN RecursiveLoop(
                ApplyRecursiveChild(groups, permissions, cmap, owner, x[1], x[2]),
                permissions, cmap, owner, todo \ {x})

\* Faulty variant: below a group collection without a recorded owner, every
\* group is given read.
ApplyRecursiveUnowned(groups, permissions, cmap, groupIds, owner) ==
    RecursiveLoop(groups, permissions, cmap, owner,
        RecursiveTargets(permissions, cmap, owner) \X groupIds)
    \cup {Entry(Itoa(g), Itoa(c), LevelRead) :
            g \in groupIds,
            c \in {d \in DOMAIN cmap :
                     /\ groupCollectionIdFromLocation(cmap[d].Location) >= 0
                     /\ groupCollectionIdFromLocation(cmap[d].Location) \notin DOMAIN owner
                     /\ ~isChildCollectionInPlan(permissions, Itoa(d))}}

\* The loop over all collections below a group collection.
ApplyRecursive(groups, permissions, cmap, groupIds, owner) ==
    RecursiveLoop(groups, permissions, cmap, owner,
        RecursiveTargets(permissions, cmap, owner) \X groupIds)

\* The Groups map of the body, for a plan that passed the plan loop and a
\* listing that succeeded.
ExpandGroups(permissions, cmap, gnames, owner) ==
    LET ids == groupIdsSet(permissions)
        seed == SeedGroups(permissions)
        direct == ApplyDirectChildren(seed, permissions, cmap, ids, gnames)
    IN ApplyRecursive(direct, permissions, cmap, ids, owner)

----------------------------------------------------------------------------
(* State Filter: filterRecursivePermissions                                *)

\* A types.Set of edges: null, or known with its elements.
SetNull == [null |-> TRUE, elems |-> {}]

SetValue(elems) == [null |-> FALSE, elems |-> elems]

\* Faulty variant: only collections three or more segments deep count as nested.
childCollectionIdsDeeper(cmap) ==
    {Itoa(c) : c \in {d \in DOMAIN cmap :
        /\ cmap[d].ParentID # 0
        /\ cmap[d].Location[1] \in {Itoa(PublicRoot), Itoa(DraftRoot)}
        /\ Len(cmap[d].Location) > 2}}

\* Faulty variant: a collection whose parent id is 0 counts as nested as well.
childCollectionIdsAnyParent(cmap) ==
    {Itoa(c) : c \in {d \in DOMAIN cmap :
        /\ cmap[d].Location[1] \in {Itoa(PublicRoot), Itoa(DraftRoot)}
        /\ Len(cmap[d].Location) > 1}}

\* The ids (as strings) of the collections nested below a group collection.
childCollectionIds(cmap) ==
    {Itoa(c) : c \in {d \in DOMAIN cmap :
        /\ cmap[d].ParentID # 0
        /\ cmap[d].Location[1] \in {Itoa(PublicRoot), Itoa(DraftRoot)}
        /\ Len(cmap[d].Location) > 1}}

\* The elements kept by the filter, for a listing that succeeded.
filterRecursivePermissions(elems, cmap) ==
    {p \in elems : p.collection.null \/ p.collection.v \notin childCollectionIds(cmap)}

----------------------------------------------------------------------------
(* makeCollectionPermissionsGraphFromModel, as a whole                     *)

CallGetGraph == "GetCollectionPermissionsGraph"

CallList == "ListCollections"

CallGetGroup == "GetPermissionsGroup"

CallPutGraph == "ReplaceCollectionPermissionsGraph"

\* The model handed to the function: the plan's revision, edges and flag.
Model(revision, permissions, flag) ==
    [revision |-> revision, permissions |-> permissions, flag |-> flag]

NoState == [has |-> FALSE, revision |-> 0]

StateWith(revision) == [has |-> TRUE, revision |-> revision]

\* The answers of the server to the calls of one expansion: whether the
\* listing succeeds and what it holds, the group names, and the groups whose
\* lookup fails.
Net(listOk, collections, names, down) ==
    [listOk |-> listOk, collections |-> collections, names |-> names, down |-> down]

Body(revision, groups) == [Revision |-> revision, Groups |-> groups]

RECURSIVE Repeat(_, _)
Repeat(x, n) == IF n = 0 THEN <<>> ELSE <<x>> \o Repeat(x, n - 1)

\* Faulty variant: the plan's revision is sent.
BodyRevisionFromPlan(data, state) == data.revision

\* Faulty variant: the revision after the state's is sent.
BodyRevisionGuessed(data, state) ==
    IF state.has THEN state.revision + 1 ELSE data.revision

\* The revision of the body: the state's revision when a state is given.
BodyRevision(data, state) == IF state.has THEN state.revision ELSE data.revision

\* The ownership maps the expansion of data can record under net.
OwnerChoices(data, net) ==
    IF /\ ~PlanHasError(data.permissions)
       /\ ApplyChildPermissions(data.flag)
       /\ net.listOk
    THEN OwnershipMaps(fetchChildCollections(net.collections),
                       groupIdsSet(data.permissions),
                       fetchGroupNames(groupIdsSet(data.permissions), net.names, net.down))
    ELSE {<<>>}

\* [err, calls, body]: the diagnostics hold an error, the network calls made in
\* order, and the graph returned (read by the callers only when err is false).
makeCollectionPermissionsGraphFromModel(data, state, net, owner) ==
    LET ids == groupIdsSet(data.permissions)
        seed == SeedGroups(data.permissions)
        gnames == fetchGroupNames(ids, net.names, net.down)
        cmap == fetchChildCollections(net.collections)
    IN IF PlanHasError(data.permissions)
       THEN [err |-> TRUE, calls |-> <<>>, body |-> Body(0, {}), lookupFailed |-> {}]
       ELSE IF ~ApplyChildPermissions(data.flag)
       THEN [err |-> FALSE, calls |-> <<>>, body |-> Body(BodyRevision(data, state), seed),
             lookupFailed |-> {}]
       ELSE IF ~net.listOk
       THEN [err |-> TRUE, calls |-> <<CallList>>,
             body |-> Body(BodyRevision(data, state), seed), lookupFailed |-> {}]
       ELSE [err |-> FALSE,
             calls |-> <<CallList>> \o Repeat(CallGetGroup, Cardinality(ids)),
             body |-> Body(BodyRevision(data, state),
                           ExpandGroups(data.permissions, cmap, gnames, owner)),
             lookupFailed |-> {g \in ids : g \in net.down \/ g \notin DOMAIN net.names}]

----------------------------------------------------------------------------
(* Inputs                                                                  *)

\* Most edges in one declaration.
MaxEdges == 2

\* Names: "An", "a-n", "A_n!", "B", "b".
NameAn == <<"A", "n">>

NameAnHyphen == <<"a", "-", "n">>

NameAnBang == <<"A", "_", "n", "!">>

NameB == <<"B">>

NameLowerB == <<"b">>

\* Listed collections. 16 and 17 are direct children of Public and Draft, 60 and
\* 61 are nested below 16, 9 is listed at /5/16/4/ (below 16, parent id 4), 8 is
\* listed at /5/16/0/ (parent id 0), 2 lies outside both roots.
Col16 == Coll(IntId(16), NameAn, <<"5">>, FALSE)

Col17 == Coll(IntId(17), NameB, <<"4">>, FALSE)

Col60 == Coll(IntId(60), NameLowerB, <<"5", "16">>, FALSE)

Col60Str == Coll(StrId("60"), NameLowerB, <<"5", "016">>, FALSE)

Col61 == Coll(IntId(61), NameAn, <<"5", "16", "60">>, FALSE)

Col9 == Coll(IntId(9), NameB, <<"5", "16", "4">>, FALSE)

Col8 == Coll(IntId(8), NameAn, <<"5", "16", "0">>, FALSE)

Col2 == Coll(IntId(2), NameAn, <<"2">>, FALSE)

Col61Bad == Coll(IntId(61), NameAn, <<"5", "x">>, FALSE)

Col61Neg == Coll(IntId(61), NameAn, <<"5", "-3">>, FALSE)

Col60Personal == Coll(IntId(60), NameAn, <<"5">>, TRUE)

ColRoot == Coll(StrId("root"), NameAn, <<>>, FALSE)

ColStrBad == Coll(StrId("x"), NameAn, <<"5">>, FALSE)

Listings ==
    { <<Col16, Col60, Col61, Col17>>,
      <<Col16, Col60Str, Col9>>,
      <<Col16, Col61Bad, Col60Personal, ColRoot, ColStrBad, Col17>>,
      <<Col16, Col8, Col2, Col61Neg>>,
      <<>> }

\* Group namings: 7 owns 16 and 8 owns 17; 7 and 8 both match 16; only 7 exists
\* and matches nothing at the roots.
GroupNamings ==
    { (7 :> NameAn) @@ (8 :> NameB),
      (7 :> NameAnHyphen) @@ (8 :> NameAnBang),
      (7 :> NameLowerB) }

GroupIds == {7, 8}

\* The edges a declaration is drawn from.
EdgeUniverse ==
    { Perm(Int64Value(7), StringValue("16"), LevelRead),
      Perm(Int64Value(7), StringValue("16"), LevelWrite),
      Perm(Int64Value(8), StringValue("16"), LevelNone),
      Perm(Int64Value(8), StringValue("60"), LevelRead),
      Perm(Int64Value(8), StringValue("9"), LevelWrite),
      Perm(Int64Value(7), StringValue("root"), LevelRead),
      Perm(Int64Null, StringValue("16"), LevelRead),
      Perm(Int64Value(7), StringNull, LevelRead) }

Declarations == {E \in SUBSET EdgeUniverse : Cardinality(E) <= MaxEdges}

Flags == {BoolNull, BoolValue(TRUE), BoolValue(FALSE)}

\* The ignored_groups attribute as the configuration declares it. It is part of
\* every plan and of the state; no handler and no function they call reads it.
IgnoredGroups == {7}

----------------------------------------------------------------------------
(* The server: the revisioned graph behind the REST client                 *)

\* Highest revision the server reaches.
MaxRev == 2

\* What another writer stores.
OtherGraph == {Entry("9", "root", LevelRead)}

\* GET collection/graph: 200 with the current revision and entries, or a
\* transport error or another status.
GetGraph(ok, rev, graph) == [ok |-> ok, Revision |-> rev, Groups |-> graph]

\* PUT collection/graph: the body replaces the graph and the revision grows by
\* one when the body carries the current revision; otherwise, or on a transport
\* error, the answer is not 200 and nothing changes.
ReplaceGraph(ok, rev, graph, body) ==
    IF ok /\ body.Revision = rev
    THEN [ok |-> TRUE, Revision |-> rev + 1, Groups |-> body.Groups]
    ELSE [ok |-> FALSE, Revision |-> rev, Groups |-> graph]

----------------------------------------------------------------------------
(* The local record and the handlers' outcome                              *)

Absent == [exists |-> FALSE, revision |-> 0, permissions |-> SetNull, flag |-> BoolNull]

Record(revision, permissions, flag) ==
    [exists |-> TRUE, revision |-> revision, permissions |-> permissions, flag |-> flag]

NoBody == [Revision |-> -1, Groups |-> {}]

NoPlan == [permissions |-> SetNull, flag |-> BoolNull]

Plan(permissions, flag) == [permissions |-> SetValue(permissions), flag |-> flag]

\* op: the handler; plan: the plan it was given; calls: its network calls in
\* order; err: its diagnostics hold an error; fetched: the revision its graph
\* read returned (-1: none); sent: the body of its graph write (NoBody: none);
\* lookupFailed: the groups whose name lookup gave no name.
Outcome(op, plan, calls, err, fetched, sent) ==
    [op |-> op, plan |-> plan, calls |-> calls, err |-> err,
     fetched |-> fetched, sent |-> sent, lookupFailed |-> {}]

NoOp == Outcome("none", NoPlan, <<>>, FALSE, -1, NoBody)

\* types.Set.Equal
SetEqual(a, b) == a.null = b.null /\ (a.null \/ a.elems = b.elems)

\* The flag after "initialize with default value if not set".
DefaultFlag(flag) == IF flag = BoolNull THEN BoolValue(TRUE) ELSE flag

----------------------------------------------------------------------------
(* User resource: the model, and the server's user endpoints               *)

\* Highest user id the server hands out.
MaxUserId == 2

Emails == {"A@x", "b@x"}

PersonNames == {"T", "U"}

Passwords == {StringNull, StringValue("p")}

\* metabase.User
User(id, email, firstName, lastName) ==
    [Id |-> id, Email |-> email, FirstName |-> firstName, LastName |-> lastName]

NoUser == User(0, "", "", "")

\* metabase.UpdateUserBody / CreateUserBody
UserBody(email, firstName, lastName) ==
    [Email |-> email, FirstName |-> firstName, LastName |-> lastName]

\* UserResourceModel
UserResourceModel(id, email, firstName, lastName, password) ==
    [exists |-> TRUE, Id |-> id, Email |-> email, FirstName |-> firstName,
     LastName |-> lastName, Password |-> password]

UserAbsent ==
    [exists |-> FALSE, Id |-> Int64Null, Email |-> StringNull, FirstName |-> StringNull,
     LastName |-> StringNull, Password |-> StringNull]

\* Faulty variant: the model keeps what the plan declared.
updateModelFromPlan(u, data) == [data EXCEPT !.Id = Int64Value(u.Id)]

updateModelFromUser(u, data) ==
    [data EXCEPT !.Id = Int64Value(u.Id),
                 !.Email = StringValue(u.Email),
                 !.FirstName = StringValue(u.FirstName),
                 !.LastName = StringValue(u.LastName)]

\* The server stores e-mail addresses in lower case.
StoredEmail(email) == IF email = "A@x" THEN "a@x" ELSE email

\* The server's users: the next id it hands out and the users it holds.
NoUsers == [next |-> 1, table |-> <<>>]

\* POST user: 200 with the stored user under a fresh id, or an error.
CreateUser(ok, srv, body) ==
    IF ok /\ srv.next <= MaxUserId
    THEN LET u == User(srv.next, StoredEmail(body.Email), body.FirstName, body.LastName)
         IN [status |-> 200, user |-> u,
             users |-> [next |-> srv.next + 1, table |-> (srv.next :> u) @@ srv.table]]
    ELSE [status |-> 500, user |-> NoUser, users |-> srv]

\* GET user/:id: 200 with the user, 204 without content when the user has been
\* deleted, 404 when there never was one, or an error.
GetUser(ok, srv, id) ==
    IF ~ok THEN [status |-> 500, user |-> NoUser, users |-> srv]
    ELSE IF id \in DOMAIN srv.table
    THEN [status |-> 200, user |-> srv.table[id], users |-> srv]
    ELSE IF id < srv.next
    THEN [status |-> 204, user |-> NoUser, users |-> srv]
    ELSE [status |-> 404, user |-> NoUser, users |-> srv]

\* PUT user/:id: 200 with the stored user, which keeps its id; 404 when there
\* is none, or an error.
UpdateUser(ok, srv, id, body) ==
    IF ~ok THEN [status |-> 500, user |-> NoUser, users |-> srv]
    ELSE IF id \in DOMAIN srv.table
    THEN LET u == User(id, StoredEmail(body.Email), body.FirstName, body.LastName)
         IN [status |-> 200, user |-> u,
             users |-> [srv EXCEPT !.table = (id :> u) @@ srv.table]]
    ELSE [status |-> 404, user |-> NoUser, users |-> srv]

\* DELETE user/:id: 204, 404 when there is none, or an error.
DeleteUser(ok, srv, id) ==
    IF ~ok THEN [status |-> 500, user |-> NoUser, users |-> srv]
    ELSE IF id \in DOMAIN srv.table
    THEN [status |-> 204, user |-> NoUser,
          users |-> [srv EXCEPT !.table =
                        [i \in DOMAIN srv.table \ {id} |-> srv.table[i]]]]
    ELSE [status |-> 404, user |-> NoUser, users |-> srv]

\* op: the handler; err: its diagnostics hold an error; status: the server's
\* answer; returned: the user in the answer.
UserOutcome(op, err, status, returned) ==
    [op |-> op, err |-> err, status |-> status, returned |-> returned]

UserIdle ==
    /\ users = NoUsers
    /\ userRec = UserAbsent
    /\ userLast = UserOutcome("none", FALSE, 0, NoUser)

----------------------------------------------------------------------------
(* Membership resource: the model, the bodies built, the server's answers  *)

\* The declared membership resources: user_id and group_id require
\* replacement, so a resource keeps its pair for life.
MemberResources == {"m7", "m8"}

\* The group of each declared resource, and the user of both.
MemberGroup == [m7 |-> 7, m8 |-> 8]

MemberUser == 1

\* The group every user is a member of; no resource declares it.
AllUsersGroup == 1

\* metabase.UserGroupMembership
UserGroupMembership(id, isGroupManager) == [Id |-> id, IsGroupManager |-> isGroupManager]

\* PermissionsGroupMembershipResourceModel
PermissionsGroupMembershipResourceModel(id, userId, groupId, isGroupManager) ==
    [exists |-> TRUE, Id |-> id, UserId |-> userId, GroupId |-> groupId,
     IsGroupManager |-> isGroupManager]

MembershipAbsent ==
    [exists |-> FALSE, Id |-> Int64Null, UserId |-> Int64Null, GroupId |-> Int64Null,
     IsGroupManager |-> BoolNull]

\* isGroupManager of Create: false unless the plan holds a value.
IsGroupManagerOf(flag) == flag = BoolValue(TRUE)

\* Faulty variant: Create never finds the membership.
MembershipExistsNever(list, groupId) == FALSE

\* "Check if membership already exists"
MembershipExists(list, groupId) == \E i \in DOMAIN list : list[i].Id = groupId

\* Create: the memberships read, and the new one appended.
AddMembership(list, groupId, isGroupManager) ==
    Append(list, UserGroupMembership(groupId, isGroupManager))

\* Update: the first membership of the group gets the planned flag.
SetMembership(list, groupId, isGroupManager) ==
    [i \in DOMAIN list |->
        IF list[i].Id = groupId /\ \A j \in 1..(i - 1) : list[j].Id # groupId
        THEN UserGroupMembership(groupId, isGroupManager)
        ELSE list[i]]

\* Faulty variant: Delete sends the memberships of the declared groups only.
FilterMembershipsDeclaredOnly(list, groupId) ==
    SelectSeq(list, LAMBDA m : m.Id # groupId /\ m.Id # AllUsersGroup)

\* Delete: the memberships read, without those of the group.
FilterMemberships(list, groupId) == SelectSeq(list, LAMBDA m : m.Id # groupId)

\* metabase.UpdateUserBodyWithMemberships
UpdateUserBodyWithMemberships(email, firstName, lastName, list) ==
    [Email |-> email, FirstName |-> firstName, LastName |-> lastName,
     UserGroupMemberships |-> list]

NoMemberBody == UpdateUserBodyWithMemberships("", "", "", <<>>)

\* GET user/:id as the membership handlers read it: the user and the
\* memberships in the body.
GetUserWithMemberships(ok, srv, lists, id) ==
    [status |-> GetUser(ok, srv, id).status,
     user |-> GetUser(ok, srv, id).user,
     UserGroupMemberships |-> IF GetUser(ok, srv, id).status = 200 THEN lists[id] ELSE <<>>]

\* PUT user/:id with memberships: on 200 the user's fields are stored as
\* UpdateUser stores them and the memberships sent replace the user's list.
PutUserWithMemberships(ok, srv, lists, id, body) ==
    LET put == UpdateUser(ok, srv, id, UserBody(body.Email, body.FirstName, body.LastName))
    IN [status |-> put.status, users |-> put.users,
        memberships |-> IF put.status = 200
                        THEN [lists EXCEPT ![id] = body.UserGroupMemberships]
                        ELSE lists]

\* The handler that ended last. res: its resource; op: the handler; err: its
\* diagnostics hold an error; summary: the summary of that error; wrote: it
\* sent a PUT.
MemberOutcome(res, op, err, summary, wrote) ==
    [res |-> res, op |-> op, err |-> err, summary |-> summary, wrote |-> wrote]

\* Who wrote the user between a handler's GET and its PUT: nobody, one handler
\* of another resource (by) that succeeded (op), or more than that.
NoOverlap == [by |-> "none", op |-> "none"]

ForeignOverlap == [by |-> "other", op |-> "none"]

\* pc: "idle", or "put" between a handler's GET and its PUT; op: the handler
\* in flight; plan: the planned is_group_manager; body: the body the PUT will
\* carry.
MemberIdleState ==
    [rec |-> MembershipAbsent, pc |-> "idle", op |-> "none", plan |-> BoolNull,
     body |-> NoMemberBody, overlap |-> NoOverlap]

MemberStart ==
    [m7 |-> MemberIdleState, m8 |-> MemberIdleState,
     last |-> MemberOutcome("none", "none", FALSE, "", FALSE)]

MemberIdle ==
    /\ memberships = [u \in 1..MaxUserId |-> <<>>]
    /\ mem = MemberStart

----------------------------------------------------------------------------
(* Graph Reconciler: the handlers of CollectionGraphResource               *)

\* The declarations a plan of the reconciler is drawn from: empty, an edge on
\* a group collection, an edge on a nested collection, both, a duplicate pair,
\* a null group, a null collection.
PlanPermissions ==
    { {},
      {Perm(Int64Value(7), StringValue("16"), LevelRead)},
      {Perm(Int64Value(8), StringValue("60"), LevelRead)},
      {Perm(Int64Value(7), StringValue("16"), LevelRead),
       Perm(Int64Value(8), StringValue("60"), LevelRead)},
      {Perm(Int64Value(7), StringValue("16"), LevelRead),
       Perm(Int64Value(7), StringValue("16"), LevelWrite)},
      {Perm(Int64Null, StringValue("16"), LevelRead)},
      {Perm(Int64Value(7), StringNull, LevelRead)} }

\* The revision attribute of a plan: it is computed, so a plan holds it unknown
\* and ValueInt64 returns 0.
PlanRevisions == {0}

\* The ids terraform import is given.
ImportIds == {"2", "x"}

DownSets == {{}, {7}}

\* A write can succeed only below the highest revision.
PutAnswers == IF srvRev < MaxRev THEN BOOLEAN ELSE {FALSE}

Init ==
    /\ listing = <<Col16, Col60, Col61, Col17>>
    /\ groupNames = (7 :> NameAn) @@ (8 :> NameB)
    /\ srvRev = 0
    /\ srvGraph = {}
    /\ rec = Absent
    /\ last = NoOp
    /\ xin = [permissions |-> {}, flag |-> BoolNull, down |-> {}]
    /\ xout = [stage |-> "input"]
    /\ UserIdle
    /\ MemberIdle

\* Faulty variant: the temporary state carries the plan's revision.
CreateTempStateFromPlan(data, currentRevision) == StateWith(data.revision)

\* The temporary state Create passes on: it carries the fetched revision.
CreateTempState(data, currentRevision) == StateWith(currentRevision)

\* Faulty variant: every Update counts as a change.
UpdateChangedAlways(data, state) == TRUE

\* Update: the explicit permissions or the flag changed.
UpdateChanged(data, state) ==
    LET permissionsChanged == ~SetEqual(data.permissions, state.permissions)
        flagChanged == /\ data.flag # BoolNull
                       /\ state.flag # BoolNull
                       /\ data.flag # state.flag
    IN permissionsChanged \/ flagChanged

\* The answers that matter to an expansion of data: the listing is asked for
\* only when the plan loop passed and the flag is on, the groups only after it.
NetChoices(data) ==
    IF PlanHasError(data.permissions) \/ ~ApplyChildPermissions(data.flag)
    THEN {Net(TRUE, listing, groupNames, {})}
    ELSE {Net(FALSE, listing, groupNames, {})}
         \cup {Net(TRUE, listing, groupNames, down) : down \in DownSets}

\* Faulty variant: the record keeps the edges of the graph that was submitted.
SavedRecordSubmitted(data, put) ==
    Record(put.Revision,
           SetValue({Perm(Int64Value(Atoi(t.group).v), StringValue(t.collection),
                          t.permission) : t \in put.Groups}),
           data.flag)

\* The state saved after a write that succeeded: the plan's edges and flag, and
\* the revision of the write's response.
SavedRecord(data, put) ==
    Record(put.Revision, SetValue(data.permissions), data.flag)

\* Create, after the graph read failed.
CreateReadFailed(plan) ==
    /\ last' = Outcome("Create", plan, <<CallGetGraph>>, TRUE, -1, NoBody)
    /\ UNCHANGED <<rec, srvRev, srvGraph>>

\* Create, after the graph read returned currentRevision: mk is the graph
\* built, put the server's answer to the write.
CreateAfterRead(plan, data, currentRevision, mk, put) ==
    IF mk.err
    THEN /\ last' = [Outcome("Create", plan, <<CallGetGraph>> \o mk.calls, TRUE,
                             currentRevision, NoBody)
                        EXCEPT !.lookupFailed = mk.lookupFailed]
         /\ UNCHANGED <<rec, srvRev, srvGraph>>
    ELSE /\ last' = [Outcome("Create", plan,
                             <<CallGetGraph>> \o mk.calls \o <<CallPutGraph>>,
                             ~put.ok, currentRevision, mk.body)
                        EXCEPT !.lookupFailed = mk.lookupFailed]
         /\ srvRev' = put.Revision
         /\ srvGraph' = put.Groups
         /\ rec' = IF put.ok THEN SavedRecord(data, put) ELSE rec

\* Apply: Create. Another writer may replace the graph between the read and
\* the write (interfere).
Create ==
    /\ ~rec.exists
    /\ \E permissions \in PlanPermissions, flag \in Flags, planRev \in PlanRevisions :
       \E get \in {GetGraph(ok, srvRev, srvGraph) : ok \in BOOLEAN} :
          IF ~get.ok
          THEN CreateReadFailed(Plan(permissions, flag))
          ELSE \E data \in {Model(get.Revision, permissions, DefaultFlag(flag))} :
               \E net \in NetChoices(data) :
               \E owner \in OwnerChoices(data, net) :
               \E mk \in {makeCollectionPermissionsGraphFromModel(
                              data,
                              CreateTempState(Model(planRev, permissions, flag),
                                              get.Revision),
                              net, owner)} :
               \E interfere \in IF ~mk.err /\ srvRev < MaxRev THEN BOOLEAN ELSE {FALSE} :
               \E putOk \in IF ~mk.err /\ ~interfere THEN PutAnswers ELSE {FALSE} :
               \E put \in {ReplaceGraph(putOk,
                                        IF interfere THEN srvRev + 1 ELSE srvRev,
                                        IF interfere THEN OtherGraph ELSE srvGraph,
                                        mk.body)} :
                  CreateAfterRead(Plan(permissions, flag), data, get.Revision, mk, put)
    /\ UNCHANGED <<users, userRec, userLast, memberships, mem, listing, groupNames, xin, xout>>

\* Faulty variant: a Reconcile records the edges of the graph it fetched.
ReadWithLiveGraph(listOk, get) ==
    IF ~listOk
    THEN /\ last' = Outcome("Read", NoPlan, <<CallList>>, TRUE, -1, NoBody)
         /\ rec' = rec
    ELSE IF ~get.ok
    THEN /\ last' = Outcome("Read", NoPlan, <<CallList, CallGetGraph>>, TRUE, -1, NoBody)
         /\ rec' = rec
    ELSE /\ last' = Outcome("Read", NoPlan, <<CallList, CallGetGraph>>, FALSE,
                            get.Revision, NoBody)
         /\ rec' = Record(get.Revision,
                          SetValue(filterRecursivePermissions(
                                       {Perm(Int64Value(Atoi(t.group).v),
                                             StringValue(t.collection), t.permission) :
                                           t \in get.Groups},
                                       fetchChildCollections(listing))),
                          DefaultFlag(rec.flag))

\* Faulty variant: a Reconcile that succeeds keeps the revision of the record.
ReadWithKeptRevision(listOk, get) ==
    IF ~listOk
    THEN /\ last' = Outcome("Read", NoPlan, <<CallList>>, TRUE, -1, NoBody)
         /\ rec' = rec
    ELSE IF ~get.ok
    THEN /\ last' = Outcome("Read", NoPlan, <<CallList, CallGetGraph>>, TRUE, -1, NoBody)
         /\ rec' = rec
    ELSE /\ last' = Outcome("Read", NoPlan, <<CallList, CallGetGraph>>, FALSE,
                            get.Revision, NoBody)
         /\ rec' = Record(rec.revision,
                          SetValue(filterRecursivePermissions(
                                       rec.permissions.elems,
                                       fetchChildCollections(listing))),
                          DefaultFlag(rec.flag))

\* Faulty variant: the filtered edges are saved before the graph read, so a
\* failed graph read leaves them in the record.
ReadWithEarlySave(listOk, get) ==
    IF ~listOk
    THEN /\ last' = Outcome("Read", NoPlan, <<CallList>>, TRUE, -1, NoBody)
         /\ rec' = rec
    ELSE /\ last' = Outcome("Read", NoPlan, <<CallList, CallGetGraph>>, ~get.ok,
                            IF get.ok THEN get.Revision ELSE -1, NoBody)
         /\ rec' = Record(IF get.ok THEN get.Revision ELSE rec.revision,
                          SetValue(filterRecursivePermissions(
                                       rec.permissions.elems,
                                       fetchChildCollections(listing))),
                          DefaultFlag(rec.flag))

\* Reconcile: Read.
ReadWith(listOk, get) ==
    IF ~listOk
    THEN /\ last' = Outcome("Read", NoPlan, <<CallList>>, TRUE, -1, NoBody)
         /\ rec' = rec
    ELSE IF ~get.ok
    THEN /\ last' = Outcome("Read", NoPlan, <<CallList, CallGetGraph>>, TRUE, -1, NoBody)
         /\ rec' = rec
    ELSE /\ last' = Outcome("Read", NoPlan, <<CallList, CallGetGraph>>, FALSE,
                            get.Revision, NoBody)
         /\ rec' = Record(get.Revision,
                          SetValue(filterRecursivePermissions(
                                       rec.permissions.elems,
                                       fetchChildCollections(listing))),
                          DefaultFlag(rec.flag))

Read ==
    /\ rec.exists
    /\ \E listOk \in BOOLEAN :
       \E getOk \in IF listOk THEN BOOLEAN ELSE {TRUE} :
          ReadWith(listOk, GetGraph(getOk, srvRev, srvGraph))
    /\ UNCHANGED <<users, userRec, userLast, memberships, mem, listing, groupNames, srvRev, srvGraph, xin, xout>>

\* Faulty variant: an Update without a change records the plan's revision.
UpdateUnchangedPlanRevision(plan, data) ==
    /\ last' = Outcome("Update", plan, <<>>, FALSE, -1, NoBody)
    /\ rec' = Record(data.revision, SetValue(data.permissions), data.flag)
    /\ UNCHANGED <<srvRev, srvGraph>>

\* Update when nothing changed: no call, the state's revision is kept.
UpdateUnchanged(plan, data) ==
    /\ last' = Outcome("Update", plan, <<>>, FALSE, -1, NoBody)
    /\ rec' = Record(rec.revision, SetValue(data.permissions), data.flag)
    /\ UNCHANGED <<srvRev, srvGraph>>

\* Faulty variant: an accepted write is merged into the graph the server holds.
UpdateChangedWithMerged(plan, data, mk, put) ==
    IF mk.err
    THEN /\ last' = [Outcome("Update", plan, mk.calls, TRUE, -1, NoBody)
                        EXCEPT !.lookupFailed = mk.lookupFailed]
         /\ UNCHANGED <<rec, srvRev, srvGraph>>
    ELSE /\ last' = [Outcome("Update", plan, mk.calls \o <<CallPutGraph>>,
                             ~put.ok, -1, mk.body)
                        EXCEPT !.lookupFailed = mk.lookupFailed]
         /\ srvRev' = put.Revision
         /\ srvGraph' = IF put.ok THEN put.Groups \cup srvGraph ELSE srvGraph
         /\ rec' = IF put.ok THEN SavedRecord(data, put) ELSE rec

\* Update when something changed: mk is the graph built from the plan and the
\* state, put the server's answer to the write.
UpdateChangedWith(plan, data, mk, put) ==
    IF mk.err
    THEN /\ last' = [Outcome("Update", plan, mk.calls, TRUE, -1, NoBody)
                        EXCEPT !.lookupFailed = mk.lookupFailed]
         /\ UNCHANGED <<rec, srvRev, srvGraph>>
    ELSE /\ last' = [Outcome("Update", plan, mk.calls \o <<CallPutGraph>>,
                             ~put.ok, -1, mk.body)
                        EXCEPT !.lookupFailed = mk.lookupFailed]
         /\ srvRev' = put.Revision
         /\ srvGraph' = put.Groups
         /\ rec' = IF put.ok THEN SavedRecord(data, put) ELSE rec

\* Converge: Update.
Update ==
    /\ rec.exists
    /\ \E permissions \in PlanPermissions, flag \in Flags, planRev \in PlanRevisions :
       \E data \in {Model(planRev, permissions, DefaultFlag(flag))} :
          IF ~UpdateChanged([permissions |-> SetValue(permissions), flag |-> data.flag],
                            rec)
          THEN UpdateUnchanged(Plan(permissions, flag), data)
          ELSE \E net \in NetChoices(data) :
               \E owner \in OwnerChoices(data, net) :
               \E mk \in {makeCollectionPermissionsGraphFromModel(
                              data, StateWith(rec.revision), net, owner)} :
               \E putOk \in IF ~mk.err THEN PutAnswers ELSE {FALSE} :
               \E put \in {ReplaceGraph(putOk, srvRev, srvGraph, mk.body)} :
                  UpdateChangedWith(Plan(permissions, flag), data, mk, put)
    /\ UNCHANGED <<users, userRec, userLast, memberships, mem, listing, groupNames, xin, xout>>

\* Faulty variant: Delete writes an empty graph to the server.
DeleteOnServer ==
    /\ rec.exists
    /\ rec' = Absent
    /\ srvGraph' = {}
    /\ last' = Outcome("Delete", NoPlan, <<CallPutGraph>>, FALSE, -1, Body(rec.revision, {}))
    /\ UNCHANGED <<users, userRec, userLast, memberships, mem, listing, groupNames, srvRev, xin, xout>>

\* Delete adds a warning; the framework then drops the record.
Delete ==
    /\ rec.exists
    /\ rec' = Absent
    /\ last' = Outcome("Delete", NoPlan, <<>>, FALSE, -1, NoBody)
    /\ UNCHANGED <<users, userRec, userLast, memberships, mem, listing, groupNames, srvRev, srvGraph, xin, xout>>

\* ImportState: the id is the revision.
ImportState ==
    /\ ~rec.exists
    /\ \E id \in ImportIds :
          IF Atoi(id).ok
          THEN /\ rec' = Record(Atoi(id).v, SetNull, BoolNull)
               /\ last' = Outcome("ImportState", NoPlan, <<>>, FALSE, -1, NoBody)
          ELSE /\ rec' = rec
               /\ last' = Outcome("ImportState", NoPlan, <<>>, TRUE, -1, NoBody)
    /\ UNCHANGED <<users, userRec, userLast, memberships, mem, listing, groupNames, srvRev, srvGraph, xin, xout>>

\* Another writer replaces the graph.
OtherWriter ==
    /\ srvRev < MaxRev
    /\ srvRev' = srvRev + 1
    /\ srvGraph' = OtherGraph
    /\ last' = Outcome("OtherWriter", NoPlan, <<>>, FALSE, -1, NoBody)
    /\ UNCHANGED <<users, userRec, userLast, memberships, mem, listing, groupNames, rec, xin, xout>>

Next == Create \/ Read \/ Update \/ Delete \/ ImportState \/ OtherWriter

Spec == Init /\ [][Next]_vars

----------------------------------------------------------------------------
(* Expansion check: the expander and the filter applied to drawn inputs    *)

\* A graph's entries taken as explicit edges.
AsExplicit(groups) ==
    {Perm(Int64Value(Atoi(t.group).v), StringValue(t.collection), t.permission) :
        t \in groups}

XNet == Net(TRUE, listing, groupNames, xin.down)

XIdle ==
    /\ srvRev = 0 /\ srvGraph = {}
    /\ rec = Absent /\ last = NoOp
    /\ UserIdle
    /\ MemberIdle

XInit ==
    /\ listing \in Listings
    /\ groupNames \in GroupNamings
    /\ xin \in [permissions : Declarations, flag : Flags, down : {{}, {7}}]
    /\ xout = [stage |-> "input"]
    /\ XIdle

\* The expander runs on the explicit input.
XExpand ==
    /\ xout.stage = "input"
    /\ \E owner \in OwnerChoices(Model(0, xin.permissions, xin.flag), XNet) :
          xout' = [stage |-> "expanded", owner |-> owner,
                   first |-> makeCollectionPermissionsGraphFromModel(
                                 Model(0, xin.permissions, xin.flag), NoState, XNet, owner)]
    /\ UNCHANGED <<users, userRec, userLast, memberships, mem, listing, groupNames, srvRev, srvGraph, rec, last, xin>>

\* The expander runs again, with propagation enabled, on its own output.
XExpandAgain ==
    /\ xout.stage = "expanded"
    /\ ~xout.first.err
    /\ LET again == Model(0, AsExplicit(xout.first.body.Groups), BoolValue(TRUE))
       IN \E owner \in OwnerChoices(again, XNet) :
             xout' = [stage |-> "expandedAgain", owner |-> xout.owner,
                      first |-> xout.first,
                      second |-> makeCollectionPermissionsGraphFromModel(
                                     again, NoState, XNet, owner)]
    /\ UNCHANGED <<users, userRec, userLast, memberships, mem, listing, groupNames, srvRev, srvGraph, rec, last, xin>>

\* The filter runs on the expander's output.
XFilter ==
    /\ xout.stage = "expanded"
    /\ ~xout.first.err
    /\ xout' = [stage |-> "filtered", owner |-> xout.owner, first |-> xout.first,
                filtered |-> filterRecursivePermissions(
                                 AsExplicit(xout.first.body.Groups),
                                 fetchChildCollections(listing))]
    /\ UNCHANGED <<users, userRec, userLast, memberships, mem, listing, groupNames, srvRev, srvGraph, rec, last, xin>>

XNext == XExpand \/ XExpandAgain \/ XFilter

SpecExpand == XInit /\ [][XNext]_vars

----------------------------------------------------------------------------
(* Name normalisation on its own                                           *)

\* Longest name compared.
MaxNameLen == 3

\* An upper-case letter, a lower-case letter, a digit, the three separators
\* and another character that is neither a letter nor a digit.
NameChars == {"A", "a", "1", " ", "_", "-", "!"}

NameInputs == UNION {[1..n -> NameChars] : n \in 0..MaxNameLen}

\* Three spellings of one two-word name.
Spellings == {<<"A", "-", "a">>, <<"a", "_", "a">>, <<"A", " ", "a">>}

\* A group name and a collection name: every name against every name that is
\* one character shorter than the longest, and the spellings against each other.
NInit ==
    /\ listing = <<Col16, Col60, Col61, Col17>>
    /\ groupNames = (7 :> NameAn) @@ (8 :> NameB)
    /\ xin \in [group : {n \in NameInputs : Len(n) < MaxNameLen},
                 collection : NameInputs]
               \cup [group : Spellings, collection : Spellings]
    /\ xout = [stage |-> "input"]
    /\ XIdle

\* Both names are normalised, and compared as the ownership step compares them.
NNormalize ==
    /\ xout.stage = "input"
    /\ xout' = [stage |-> "normalized",
                group |-> normalizeName(xin.group),
                collection |-> normalizeName(xin.collection),
                equivalent |-> NameMatches((7 :> xin.group), 7,
                                  CollectionInfo(16, PublicRoot, xin.collection,
                                                 <<Itoa(PublicRoot)>>))]
    /\ UNCHANGED <<users, userRec, userLast, memberships, mem, listing, groupNames, srvRev, srvGraph, rec, last, xin>>

NNext == NNormalize

SpecNames == NInit /\ [][NNext]_vars

----------------------------------------------------------------------------
(* User resource: the handlers of UserResource                             *)

UInit ==
    /\ listing = <<Col16, Col60, Col61, Col17>>
    /\ groupNames = (7 :> NameAn) @@ (8 :> NameB)
    /\ xin = [permissions |-> {}, flag |-> BoolNull, down |-> {}]
    /\ xout = [stage |-> "input"]
    /\ XIdle

UserCreate ==
    /\ ~userRec.exists
    /\ \E email \in Emails, firstName \in PersonNames, lastName \in PersonNames,
          password \in Passwords, ok \in BOOLEAN :
       \E data \in {UserResourceModel(Int64Null, StringValue(email), StringValue(firstName),
                                      StringValue(lastName), password)} :
       \E createResp \in {CreateUser(ok, users,
                              UserBody(data.Email.v, data.FirstName.v, data.LastName.v))} :
          /\ users' = createResp.users
          /\ userLast' = UserOutcome("Create", createResp.status # 200,
                                     createResp.status, createResp.user)
          /\ userRec' = IF createResp.status = 200
                        THEN updateModelFromUser(createResp.user, data)
                        ELSE userRec
    /\ UNCHANGED <<memberships, mem, listing, groupNames, srvRev, srvGraph, rec, last, xin, xout>>

\* Faulty variant: only 404 removes the record; 204 leaves it as it is.
UserReadKeepsOnNoContent ==
    /\ userRec.exists
    /\ \E ok \in BOOLEAN :
       \E getResp \in {GetUser(ok, users, userRec.Id.v)} :
          /\ users' = getResp.users
          /\ userLast' = UserOutcome("Read", getResp.status \notin {200, 204, 404},
                                     getResp.status, getResp.user)
          /\ userRec' = IF getResp.status = 404 THEN UserAbsent
                        ELSE IF getResp.status = 200
                        THEN updateModelFromUser(getResp.user, userRec)
                        ELSE userRec
    /\ UNCHANGED <<memberships, mem, listing, groupNames, srvRev, srvGraph, rec, last, xin, xout>>

UserRead ==
    /\ userRec.exists
    /\ \E ok \in BOOLEAN :
       \E getResp \in {GetUser(ok, users, userRec.Id.v)} :
          /\ users' = getResp.users
          /\ userLast' = UserOutcome("Read", getResp.status \notin {200, 204, 404},
                                     getResp.status, getResp.user)
          /\ userRec' = IF getResp.status \in {404, 204} THEN UserAbsent
                        ELSE IF getResp.status = 200
                        THEN updateModelFromUser(getResp.user, userRec)
                        ELSE userRec
    /\ UNCHANGED <<memberships, mem, listing, groupNames, srvRev, srvGraph, rec, last, xin, xout>>

UserUpdate ==
    /\ userRec.exists
    /\ \E email \in Emails, firstName \in PersonNames, lastName \in PersonNames,
          password \in Passwords, ok \in BOOLEAN :
       \E data \in {UserResourceModel(userRec.Id, StringValue(email), StringValue(firstName),
                                      StringValue(lastName), password)} :
       \E updateResp \in {UpdateUser(ok, users, data.Id.v,
                              UserBody(data.Email.v, data.FirstName.v, data.LastName.v))} :
          /\ users' = updateResp.users
          /\ userLast' = UserOutcome("Update", updateResp.status # 200,
                                     updateResp.status, updateResp.user)
          /\ userRec' = IF updateResp.status = 200
                        THEN updateModelFromUser(updateResp.user, data)
                        ELSE userRec
    /\ UNCHANGED <<memberships, mem, listing, groupNames, srvRev, srvGraph, rec, last, xin, xout>>

UserDelete ==
    /\ userRec.exists
    /\ \E ok \in BOOLEAN :
       \E deleteResp \in {DeleteUser(ok, users, userRec.Id.v)} :
          /\ users' = deleteResp.users
          /\ userLast' = UserOutcome("Delete", deleteResp.status # 204,
                                     deleteResp.status, deleteResp.user)
          /\ userRec' = IF deleteResp.status = 204 THEN UserAbsent ELSE userRec
    /\ UNCHANGED <<memberships, mem, listing, groupNames, srvRev, srvGraph, rec, last, xin, xout>>

\* The id given on import becomes the record's id; nothing is fetched.
UserImportState ==
    /\ ~userRec.exists
    /\ \E id \in 1..MaxUserId :
          userRec' = [UserAbsent EXCEPT !.exists = TRUE, !.Id = Int64Value(id)]
    /\ userLast' = UserOutcome("ImportState", FALSE, 0, NoUser)
    /\ UNCHANGED <<users, memberships, mem, listing, groupNames, srvRev, srvGraph, rec, last, xin, xout>>

\* Somebody else renames or removes a user on the server.
UserOther ==
    /\ \E id \in DOMAIN users.table :
          \/ \E firstName \in PersonNames :
                users' = UpdateUser(TRUE, users, id,
                                    UserBody(users.table[id].Email, firstName,
                                             users.table[id].LastName)).users
          \/ users' = DeleteUser(TRUE, users, id).users
    /\ users' # users
    /\ userLast' = UserOutcome("Other", FALSE, 0, NoUser)
    /\ UNCHANGED <<userRec, memberships, mem, listing, groupNames, srvRev, srvGraph, rec, last, xin, xout>>

UNext == UserCreate \/ UserRead \/ UserUpdate \/ UserDelete \/ UserImportState \/ UserOther

SpecUser == UInit /\ [][UNext]_vars

----------------------------------------------------------------------------
(* Membership resource: the handlers of PermissionsGroupMembershipResource *)

\* The is_group_manager attribute of a plan: the configuration of m7 sets it
\* or leaves it out, that of m8 leaves it out.
MemberFlags == [m7 |-> {BoolNull, BoolValue(TRUE)}, m8 |-> {BoolNull}]

\* The ids terraform import is given, split at the colons: the declared pair,
\* a user that never existed, a group that is no integer, a single part.
MemberImportIds(m) ==
    { <<"1", Itoa(MemberGroup[m])>>, <<"9", Itoa(MemberGroup[m])>>, <<"1", "x">>, <<"x">> }

\* A handler of resource m ends without a call in flight.
MemberDone(m, record, outcome) ==
    mem' = [mem EXCEPT ![m] = [MemberIdleState EXCEPT !.rec = record],
                       !.last = outcome]

\* A handler of resource m has read the user and is about to send body.
MemberSends(m, op, plan, body) ==
    mem' = [mem EXCEPT ![m] = [rec |-> mem[m].rec, pc |-> "put", op |-> op,
                               plan |-> plan, body |-> body, overlap |-> NoOverlap]]

\* Create, up to its PUT.
MemberCreate(m) ==
    /\ mem[m].pc = "idle"
    /\ ~mem[m].rec.exists
    /\ \E flag \in MemberFlags[m], ok \in BOOLEAN :
       \E get \in {GetUserWithMemberships(ok, users, memberships, MemberUser)} :
          IF get.status # 200
          THEN MemberDone(m, mem[m].rec, MemberOutcome(m, "Create", TRUE, "get user", FALSE))
          ELSE IF MembershipExists(get.UserGroupMemberships, MemberGroup[m])
          THEN MemberDone(m, mem[m].rec,
                          MemberOutcome(m, "Create", TRUE, "Membership already exists", FALSE))
          ELSE MemberSends(m, "Create", flag,
                           UpdateUserBodyWithMemberships(
                               get.user.Email, get.user.FirstName, get.user.LastName,
                               AddMembership(get.UserGroupMemberships, MemberGroup[m],
                                             IsGroupManagerOf(flag))))
    /\ UNCHANGED <<users, memberships, userRec, userLast,
                   listing, groupNames, srvRev, srvGraph, rec, last, xin, xout>>

\* Update, up to its PUT. The plan differs from the state in is_group_manager.
MemberUpdate(m) ==
    /\ mem[m].pc = "idle"
    /\ mem[m].rec.exists
    /\ mem[m].rec.UserId = Int64Value(MemberUser)
    /\ \E flag \in MemberFlags[m] \ {mem[m].rec.IsGroupManager}, ok \in BOOLEAN :
       \E get \in {GetUserWithMemberships(ok, users, memberships, MemberUser)} :
          IF get.status # 200
          THEN MemberDone(m, mem[m].rec, MemberOutcome(m, "Update", TRUE, "get user", FALSE))
          ELSE MemberSends(m, "Update", flag,
                           UpdateUserBodyWithMemberships(
                               get.user.Email, get.user.FirstName, get.user.LastName,
                               SetMembership(get.UserGroupMemberships, MemberGroup[m],
                                             flag = BoolValue(TRUE))))
    /\ UNCHANGED <<users, memberships, userRec, userLast,
                   listing, groupNames, srvRev, srvGraph, rec, last, xin, xout>>

\* Delete, up to its PUT.
MemberDelete(m) ==
    /\ mem[m].pc = "idle"
    /\ mem[m].rec.exists
    /\ \E ok \in BOOLEAN :
       \E get \in {GetUserWithMemberships(ok, users, memberships, mem[m].rec.UserId.v)} :
          IF get.status # 200
          THEN MemberDone(m, mem[m].rec, MemberOutcome(m, "Delete", TRUE, "get user", FALSE))
          ELSE MemberSends(m, "Delete", BoolNull,
                           UpdateUserBodyWithMemberships(
                               get.user.Email, get.user.FirstName, get.user.LastName,
                               FilterMemberships(get.UserGroupMemberships,
                                                 mem[m].rec.GroupId.v)))
    /\ UNCHANGED <<users, memberships, userRec, userLast,
                   listing, groupNames, srvRev, srvGraph, rec, last, xin, xout>>

\* The record after the PUT of op answered 200.
MemberRecordAfter(m, op, plan) ==
    IF op = "Delete" THEN MembershipAbsent
    ELSE PermissionsGroupMembershipResourceModel(
             Int64Value(MemberGroup[m]), Int64Value(MemberUser),
             Int64Value(MemberGroup[m]), plan)

\* The summary of the error after the PUT of op failed.
MemberPutError(op) ==
    IF op = "Create" THEN "Failed to create membership"
    ELSE IF op = "Update" THEN "Failed to update membership"
    ELSE "Failed to delete membership"

\* The PUT of the handler in flight, and what the handler does with the
\* answer. A resource with a call in flight on the same user notes who wrote.
MemberPut(m) ==
    /\ mem[m].pc = "put"
    /\ \E ok \in BOOLEAN :
       \E user \in {IF mem[m].op = "Delete" THEN mem[m].rec.UserId.v ELSE MemberUser} :
       \E put \in {PutUserWithMemberships(ok, users, memberships, user, mem[m].body)} :
          /\ users' = put.users
          /\ memberships' = put.memberships
          /\ mem' = [n \in DOMAIN mem |->
                        IF n = "last"
                        THEN MemberOutcome(m, mem[m].op, put.status # 200,
                                           IF put.status = 200 THEN ""
                                           ELSE MemberPutError(mem[m].op), TRUE)
                        ELSE IF n = m
                        THEN [MemberIdleState EXCEPT !.rec =
                                 IF put.status = 200
                                 THEN MemberRecordAfter(m, mem[m].op, mem[m].plan)
                                 ELSE mem[m].rec]
                        ELSE IF mem[n].pc = "put" /\ put.status = 200
                        THEN [mem[n] EXCEPT !.overlap =
                                 IF mem[n].overlap = NoOverlap
                                 THEN [by |-> m, op |-> mem[m].op]
                                 ELSE ForeignOverlap]
                        ELSE mem[n]]
    /\ UNCHANGED <<userRec, userLast,
                   listing, groupNames, srvRev, srvGraph, rec, last, xin, xout>>

\* Read: one GET.
MemberRead(m) ==
    /\ mem[m].pc = "idle"
    /\ mem[m].rec.exists
    /\ \E ok \in BOOLEAN :
       \E get \in {GetUserWithMemberships(ok, users, memberships, mem[m].rec.UserId.v)} :
          IF get.status = 404
          THEN MemberDone(m, MembershipAbsent, MemberOutcome(m, "Read", FALSE, "", FALSE))
          ELSE IF get.status # 200
          THEN MemberDone(m, mem[m].rec, MemberOutcome(m, "Read", TRUE, "get user", FALSE))
          ELSE IF ~MembershipExists(get.UserGroupMemberships, mem[m].rec.GroupId.v)
          THEN MemberDone(m, MembershipAbsent, MemberOutcome(m, "Read", FALSE, "", FALSE))
          ELSE \E i \in {j \in DOMAIN get.UserGroupMemberships :
                            /\ get.UserGroupMemberships[j].Id = mem[m].rec.GroupId.v
                            /\ \A k \in 1..(j - 1) :
                                  get.UserGroupMemberships[k].Id # mem[m].rec.GroupId.v} :
                  MemberDone(m, [mem[m].rec EXCEPT !.IsGroupManager =
                                    IF get.UserGroupMemberships[i].IsGroupManager
                                    THEN BoolValue(TRUE) ELSE BoolValue(FALSE)],
                             MemberOutcome(m, "Read", FALSE, "", FALSE))
    /\ UNCHANGED <<users, memberships, userRec, userLast,
                   listing, groupNames, srvRev, srvGraph, rec, last, xin, xout>>

\* ImportState: "user_id:group_id".
MemberImportState(m) ==
    /\ mem[m].pc = "idle"
    /\ ~mem[m].rec.exists
    /\ \E parts \in MemberImportIds(m) :
          IF Len(parts) # 2
          THEN MemberDone(m, mem[m].rec,
                          MemberOutcome(m, "ImportState", TRUE, "Invalid import ID", FALSE))
          ELSE IF ~Atoi(parts[1]).ok
          THEN MemberDone(m, mem[m].rec,
                          MemberOutcome(m, "ImportState", TRUE, "Invalid user ID", FALSE))
          ELSE IF ~Atoi(parts[2]).ok
          THEN MemberDone(m, mem[m].rec,
                          MemberOutcome(m, "ImportState", TRUE, "Invalid group ID", FALSE))
          ELSE MemberDone(m, PermissionsGroupMembershipResourceModel(
                                 Int64Value(Atoi(parts[2]).v), Int64Value(Atoi(parts[1]).v),
                                 Int64Value(Atoi(parts[2]).v), BoolNull),
                          MemberOutcome(m, "ImportState", FALSE, "", FALSE))
    /\ UNCHANGED <<users, memberships, userRec, userLast,
                   listing, groupNames, srvRev, srvGraph, rec, last, xin, xout>>

\* Somebody else adds the user to a declared group or removes the user from it.
MemberOther ==
    /\ MemberUser \in DOMAIN users.table
    /\ \E g \in {MemberGroup[m] : m \in MemberResources} :
          memberships' =
             [memberships EXCEPT ![MemberUser] =
                 IF MembershipExists(memberships[MemberUser], g)
                 THEN FilterMemberships(memberships[MemberUser], g)
                 ELSE AddMembership(memberships[MemberUser], g, FALSE)]
    /\ mem' = [n \in DOMAIN mem |->
                  IF n = "last" THEN MemberOutcome("other", "Other", FALSE, "", FALSE)
                  ELSE IF mem[n].pc = "put"
                  THEN [mem[n] EXCEPT !.overlap = ForeignOverlap] ELSE mem[n]]
    /\ UNCHANGED <<users, userRec, userLast,
                   listing, groupNames, srvRev, srvGraph, rec, last, xin, xout>>

\* One user, a member of the group of all users; nothing recorded.
MemberInit ==
    /\ listing = <<Col16, Col60, Col61, Col17>>
    /\ groupNames = (7 :> NameAn) @@ (8 :> NameB)
    /\ srvRev = 0 /\ srvGraph = {}
    /\ rec = Absent /\ last = NoOp
    /\ xin = [permissions |-> {}, flag |-> BoolNull, down |-> {}]
    /\ xout = [stage |-> "input"]
    /\ users = [next |-> MemberUser + 1,
                table |-> (MemberUser :> User(MemberUser, "a@x", "T", "U"))]
    /\ userRec = UserAbsent
    /\ userLast = UserOutcome("none", FALSE, 0, NoUser)
    /\ memberships = [u \in 1..MaxUserId |->
                         IF u = MemberUser
                         THEN <<UserGroupMembership(AllUsersGroup, FALSE)>> ELSE <<>>]
    /\ mem = MemberStart

MemberNext ==
    \/ \E m \in MemberResources :
          \/ MemberCreate(m) \/ MemberUpdate(m) \/ MemberDelete(m) \/ MemberPut(m)
          \/ MemberRead(m) \/ MemberImportState(m)
    \/ MemberOther

SpecMember == MemberInit /\ [][MemberNext]_vars

\* Read on its own: records come from import, the server changes through
\* the user's deletion and through somebody else's membership changes.
ReadNext ==
    \/ UserImportState \/ UserRead \/ UserDelete
    \/ \E m \in MemberResources : MemberImportState(m) \/ MemberRead(m)
    \/ MemberOther

SpecRead == MemberInit /\ [][ReadNext]_vars

----------------------------------------------------------------------------
(* Graph to model: updateModelFromCollectionPermissionsGraph               *)

\* The Administrators group, ignored when ignored_groups is not set.
AdministratorsPermissionsGroupId == 2

\* The ignored group ids as the keys of the graph spell them: the configured
\* set, or the Administrators group when the attribute is null.
getIgnoredPermissionsGroups(ignoredGroups) ==
    IF ignoredGroups.null THEN {Itoa(AdministratorsPermissionsGroupId)}
    ELSE {Itoa(g) : g \in ignoredGroups.elems}

\* Faulty variant: entries of level none become edges as well.
updateModelKeepingNone(g, data) ==
    LET ignoredGroups == getIgnoredPermissionsGroups(data.ignoredGroups)
        kept == {t \in g.Groups : t.group \notin ignoredGroups}
    IN [err |-> FALSE, revision |-> Int64Value(g.Revision), ignoredGroups |-> data.ignoredGroups,
        permissions |-> SetValue({Perm(Int64Value(Atoi(t.group).v), StringValue(t.collection),
                                       t.permission) : t \in kept})]

\* The model after the call, and whether the diagnostics hold an error. The
\* revision is stored first; an entry whose group key is not an integer ends
\* the call with an error and leaves the permissions as they were.
updateModelFromCollectionPermissionsGraph(g, data) ==
    LET ignoredGroups == getIgnoredPermissionsGroups(data.ignoredGroups)
        kept == {t \in g.Groups : t.group \notin ignoredGroups /\ t.permission # LevelNone}
    IN IF \E t \in kept : ~Atoi(t.group).ok
       THEN [err |-> TRUE, revision |-> Int64Value(g.Revision),
             ignoredGroups |-> data.ignoredGroups, permissions |-> data.permissions]
       ELSE [err |-> FALSE, revision |-> Int64Value(g.Revision),
             ignoredGroups |-> data.ignoredGroups,
             permissions |->
                 SetValue({Perm(Int64Value(Atoi(t.group).v), StringValue(t.collection),
                                t.permission) : t \in kept})]

\* The entries a server graph is drawn from.
GraphEntries ==
    { Entry("7", "16", LevelRead), Entry("7", "16", LevelWrite), Entry("7", "16", LevelNone),
      Entry("7", "60", LevelNone), Entry("2", "16", LevelWrite),
      Entry("8", "root", LevelRead), Entry("x", "16", LevelRead) }

\* The graphs: a (group, collection) pair has one level at most.
ServerGraphs ==
    {G \in SUBSET GraphEntries :
        \A t, u \in G : (t.group = u.group /\ t.collection = u.collection) => t = u}

IgnoredGroupsAttributes == {SetNull, SetValue({}), SetValue({7}), SetValue({2, 8})}

\* A graph received and the model it is mapped into.
MInit ==
    /\ listing = <<Col16, Col60, Col61, Col17>>
    /\ groupNames = (7 :> NameAn) @@ (8 :> NameB)
    /\ xin \in [graph : {Body(r, G) : r \in 0..MaxRev, G \in ServerGraphs},
                 data : {[revision |-> Int64Null, ignoredGroups |-> i, permissions |-> q] :
                            i \in IgnoredGroupsAttributes,
                            q \in {SetNull,
                                   SetValue({Perm(Int64Value(8), StringValue("60"),
                                                  LevelRead)})}}]
    /\ xout = [stage |-> "input"]
    /\ XIdle

MUpdateModel ==
    /\ xout.stage = "input"
    /\ xout' = [stage |-> "mapped",
                result |-> updateModelFromCollectionPermissionsGraph(xin.graph, xin.data)]
    /\ UNCHANGED <<memberships, mem, listing, groupNames, srvRev, srvGraph, rec, last, xin,
                   users, userRec, userLast>>

MNext == MUpdateModel

SpecMap == MInit /\ [][MNext]_vars

----------------------------------------------------------------------------
(* Properties                                                              *)

CallCount(calls, c) == Cardinality({i \in DOMAIN calls : calls[i] = c})

\* Two edges of the declaration share a (group, resource) pair.
HasDuplicate(elems) ==
    \E p, q \in elems :
        /\ p # q
        /\ ~p.group.null /\ ~q.group.null /\ p.group.v = q.group.v
        /\ ~p.collection.null /\ ~q.collection.null /\ p.collection.v = q.collection.v

HasNull(elems) == \E p \in elems : p.group.null \/ p.collection.null

Malformed(elems) == HasDuplicate(elems) \/ HasNull(elems)

\* The resource is listed two or more segments below Public or Draft.
NestedBelowAnchor(collections, colIdStr) ==
    \E c \in DOMAIN fetchChildCollections(collections) :
        /\ Itoa(c) = colIdStr
        /\ fetchChildCollections(collections)[c].Location[1]
               \in {Itoa(PublicRoot), Itoa(DraftRoot)}
        /\ Len(fetchChildCollections(collections)[c].Location) >= 2

ParentIsZero(collections, colIdStr) ==
    \E c \in DOMAIN fetchChildCollections(collections) :
        Itoa(c) = colIdStr /\ fetchChildCollections(collections)[c].ParentID = 0

\* The handler that last ran is Apply (Create) or Converge (Update).
Wrote(o) == o.op \in {"Create", "Update"}

\* C1 (as claimed): after a successful Apply or Converge of a declaration D, a
\* successful Reconcile leaves the recorded edge set equal to D's explicit
\* edges, also when D declares edges on resources nested below an anchor child.
C1_ReconcileKeepsDeclaration ==
    [][(Wrote(last) /\ ~last.err /\ last'.op = "Read" /\ ~last'.err)
          => rec'.permissions = last.plan.permissions]_vars

\* C2: with propagation enabled, running the expander on its own output, taken
\* as the explicit input, yields exactly that output again, whichever matching
\* group either run records as owner.
C2_ExpansionIdempotent ==
    (xout.stage = "expandedAgain" /\ ApplyChildPermissions(xin.flag))
        => /\ ~xout.second.err
           /\ xout.second.body.Groups = xout.first.body.Groups

\* C2 witness: a second run was made on an output that holds derived entries.
C2_Witness ==
    /\ xout.stage = "expandedAgain"
    /\ ApplyChildPermissions(xin.flag)
    /\ xin.permissions # {}
    /\ AsExplicit(xout.first.body.Groups) # xin.permissions
    /\ \E t \in xout.first.body.Groups : NestedBelowAnchor(listing, t.collection)

\* The explicit input has no edge on a resource nested below an anchor child.
C3_Precondition ==
    /\ xout.stage = "filtered"
    /\ ApplyChildPermissions(xin.flag)
    /\ \A p \in xin.permissions : ~NestedBelowAnchor(listing, p.collection.v)

\* C3 (as claimed): for an explicit edge set E with no edge on a resource nested
\* two or more segments below an anchor root, the filter applied to the
\* expansion of E returns exactly E.
C3_FilterInvertsExpansion ==
    C3_Precondition => xout.filtered = xin.permissions

\* C3 (amended): for such an E, the filter applied to the expansion of E returns
\* E together with the derived edges on the resources the filter keeps: those
\* not nested two or more segments below an anchor root (the direct anchor
\* children among them) and those whose parent id is 0.
C3_FilterKeepsUnnestedDerived ==
    C3_Precondition =>
        xout.filtered =
            xin.permissions \cup
            {p \in AsExplicit(xout.first.body.Groups) :
                \/ ~NestedBelowAnchor(listing, p.collection.v)
                \/ ParentIsZero(listing, p.collection.v)}

\* C3 witness: the filter dropped a derived edge and kept another one.
C3_Witness ==
    /\ C3_Precondition
    /\ xin.permissions # {}
    /\ xout.filtered # xin.permissions
    /\ xout.filtered # AsExplicit(xout.first.body.Groups)

\* C4: with the propagation flag false, the graph built holds exactly the
\* explicit edges, and neither the resource listing nor a group lookup is made.
C4_PropagationOff ==
    (xout.stage = "expanded" /\ xin.flag = BoolValue(FALSE) /\ ~xout.first.err)
        => /\ AsExplicit(xout.first.body.Groups) = xin.permissions
           /\ xout.first.calls = <<>>

\* C4 witness: the flag is false on an input that propagation would extend.
C4_Witness ==
    /\ xout.stage = "expanded"
    /\ xin.flag = BoolValue(FALSE)
    /\ ~xout.first.err
    /\ xin.permissions # {}
    /\ \E owner \in OwnerChoices(Model(0, xin.permissions, BoolValue(TRUE)), XNet) :
          ExpandGroups(xin.permissions, fetchChildCollections(listing),
                       fetchGroupNames(groupIdsSet(xin.permissions), groupNames, xin.down),
                       owner) # xout.first.body.Groups

\* C5: every explicit edge (g, r, level) is in the expanded graph with exactly
\* that level, and the graph holds no other entry for (g, r).
C5_ExplicitDominates ==
    (xout.stage = "expanded" /\ ApplyChildPermissions(xin.flag) /\ ~xout.first.err)
        => \A p \in xin.permissions :
              /\ HasEntry(xout.first.body.Groups, Itoa(p.group.v), p.collection.v)
              /\ \A t \in xout.first.body.Groups :
                    (t.group = Itoa(p.group.v) /\ t.collection = p.collection.v)
                       => t.permission = p.permission

\* C5 witness: an explicit read on an anchor child whose name matches the
\* group's name stays read.
C5_Witness ==
    /\ xout.stage = "expanded"
    /\ ApplyChildPermissions(xin.flag)
    /\ ~xout.first.err
    /\ \E p \in xin.permissions :
       \E c \in DOMAIN fetchChildCollections(listing) :
          /\ p.collection.v = Itoa(c)
          /\ p.permission = LevelRead
          /\ IsAnchorChild(fetchChildCollections(listing)[c])
          /\ NameMatches(fetchGroupNames(groupIdsSet(xin.permissions), groupNames, xin.down),
                         p.group.v, fetchChildCollections(listing)[c])
          /\ Entry(Itoa(p.group.v), p.collection.v, LevelRead) \in xout.first.body.Groups

\* C6 (as claimed): with two explicit edges on the same (group, resource) pair,
\* Apply and Converge fail before any network call.
C6_DuplicateFailsBeforeAnyCall ==
    (Wrote(last) /\ HasDuplicate(last.plan.permissions.elems))
        => last.err /\ last.calls = <<>>

\* C6 (amended): with two explicit edges on the same (group, resource) pair,
\* Converge fails before any network call, and Apply fails with its graph read
\* as the only network call: no resource listing, group lookup or graph write.
C6_DuplicateFailsBeforeExpansion ==
    (Wrote(last) /\ HasDuplicate(last.plan.permissions.elems))
        => /\ last.err
           /\ (last.op = "Update" => last.calls = <<>>)
           /\ (last.op = "Create" => last.calls = <<CallGetGraph>>)

\* C6 witness: Apply read the graph and then failed on a duplicate pair.
C6_Witness ==
    /\ last.op = "Create"
    /\ HasDuplicate(last.plan.permissions.elems)
    /\ last.err
    /\ last.fetched >= 0

\* C7: a declaration with a duplicate pair, a null group or a null resource makes
\* Apply and Converge end in error, with no graph write, the server graph and
\* its revision unchanged, and the local record unchanged.
C7_MalformedAborts ==
    [][(Wrote(last') /\ Malformed(last'.plan.permissions.elems))
          => /\ last'.err
             /\ last'.sent = NoBody
             /\ CallCount(last'.calls, CallPutGraph) = 0
             /\ srvGraph' = srvGraph
             /\ srvRev' = srvRev
             /\ rec' = rec]_vars

\* C7 witness: Converge ended in error on a declaration with a null field while
\* a record existed.
C7_Witness ==
    /\ last.op = "Update"
    /\ HasNull(last.plan.permissions.elems)
    /\ last.err
    /\ rec.exists
    /\ ~rec.permissions.null

\* The declared toggle, an unset toggle counting as true, is the recorded one.
ToggleUnchanged(plan, state) == DefaultFlag(plan.flag) = DefaultFlag(state.flag)

\* C8: when the declared edge set equals the recorded edge set and the toggle is
\* unchanged, Converge makes no network call, reports no error, leaves the
\* server as it is and records the revision it found in the record.
C8_NoDiffNoCall ==
    [][(/\ last'.op = "Update"
        /\ last'.plan.permissions = rec.permissions
        /\ ToggleUnchanged(last'.plan, rec))
          => /\ last'.calls = <<>>
             /\ ~last'.err
             /\ rec'.revision = rec.revision
             /\ srvRev' = srvRev
             /\ srvGraph' = srvGraph]_vars

\* C8 witness: Converge found no diff on a record whose revision is stale.
C8_Witness ==
    /\ last.op = "Update"
    /\ ~last.err
    /\ last.calls = <<>>
    /\ last.plan.permissions = rec.permissions
    /\ rec.permissions.elems # {}
    /\ rec.revision < srvRev

\* The declared state differs from the record.
C9_Diff ==
    /\ last'.op = "Update"
    /\ \/ last'.plan.permissions # rec.permissions
       \/ ~ToggleUnchanged(last'.plan, rec)

\* Exactly one graph write, carrying the recorded revision, and no graph read.
C9_OneWrite ==
    /\ CallCount(last'.calls, CallPutGraph) = 1
    /\ last'.sent # NoBody
    /\ last'.sent.Revision = rec.revision
    /\ CallCount(last'.calls, CallGetGraph) = 0

\* C9 (as claimed): whenever the declared edge set or toggle differs from the
\* record, Converge issues exactly one graph write, carrying the recorded
\* revision, without fetching the graph first.
C9_DiffWritesOnce == [][C9_Diff => C9_OneWrite]_vars

\* The resource listing of the handler failed.
ListingFailed(o) == o.err /\ o.calls = <<CallList>>

\* C9 (amended): whenever the declared edge set or toggle differs from the
\* record, the declaration is well formed and the resource listing (made when
\* propagation is on) succeeds, Converge issues exactly one graph write, carrying
\* the recorded revision, without fetching the graph first; with a malformed
\* declaration or a failed listing it issues no write.
C9_DiffWritesOnceWhenBuilt ==
    [][C9_Diff =>
          IF Malformed(last'.plan.permissions.elems) \/ ListingFailed(last')
          THEN CallCount(last'.calls, CallPutGraph) = 0 /\ last'.sent = NoBody
          ELSE C9_OneWrite]_vars

\* C9 witness: Converge wrote with a recorded revision that is not the plan's.
C9_Witness ==
    /\ last.op = "Update"
    /\ last.sent # NoBody
    /\ last.sent.Revision > 0
    /\ ~last.err

\* C10: the revision carried by Apply's write is the revision its own graph
\* read returned, not the plan's.
C10_ApplyWritesFetchedRevision ==
    (last.op = "Create" /\ last.sent # NoBody)
        => /\ last.fetched >= 0
           /\ last.sent.Revision = last.fetched

\* C10 witness: Apply wrote after reading a revision other than the plan's.
C10_Witness ==
    /\ last.op = "Create"
    /\ last.sent # NoBody
    /\ last.fetched > 0
    /\ ~last.err

\* C11: after an Apply or a Converge whose write succeeded, the record holds
\* exactly the declared explicit edges, not the edges of the graph submitted,
\* and the revision of the server's write response.
C11_RecordAfterWrite ==
    (Wrote(last) /\ last.sent # NoBody /\ ~last.err)
        => /\ rec.exists
           /\ rec.permissions = last.plan.permissions
           /\ rec.revision = srvRev
           /\ srvRev = last.sent.Revision + 1

\* C11 witness: a write succeeded whose graph holds derived edges, with a
\* revision above the one a plan carries.
C11_Witness ==
    /\ Wrote(last)
    /\ last.sent # NoBody
    /\ ~last.err
    /\ last.plan.permissions.elems # {}
    /\ Cardinality(last.sent.Groups) > Cardinality(last.plan.permissions.elems)
    /\ rec.revision > 1

\* C12: Delete issues no network call, leaves the server graph and its revision
\* as they are, reports no error, and drops the local record.
C12_DeleteLeavesServer ==
    [][last'.op = "Delete"
          => /\ last'.calls = <<>>
             /\ last'.sent = NoBody
             /\ ~last'.err
             /\ srvGraph' = srvGraph
             /\ srvRev' = srvRev
             /\ rec.exists
             /\ rec' = Absent]_vars

\* C12 witness: Delete dropped the record while the server holds a graph that
\* was written.
C12_Witness ==
    /\ last.op = "Delete"
    /\ ~rec.exists
    /\ srvGraph # {}
    /\ srvRev > 0

LastCall(calls) == calls[Len(calls)]

\* The handler's graph read was answered with an error or a status other than 200.
GraphReadFailed(o) ==
    /\ CallCount(o.calls, CallGetGraph) > 0
    /\ o.fetched = -1

\* The handler's graph write was not accepted: a body was sent, and the step
\* did not take the server from the revision sent to the next one holding the
\* body sent.
WriteFailed ==
    /\ last'.sent # NoBody
    /\ ~(/\ srvRev = last'.sent.Revision
         /\ srvRev' = srvRev + 1
         /\ srvGraph' = last'.sent.Groups)

\* The handler's resource listing failed: it ended in error on a well-formed
\* declaration although no graph read and no graph write failed.
ListingFailedIn ==
    /\ last'.err
    /\ CallCount(last'.calls, CallList) > 0
    /\ ~GraphReadFailed(last')
    /\ ~WriteFailed
    /\ ~Malformed(last'.plan.permissions.elems)

\* C13: when a graph read, a resource listing or a graph write of Apply,
\* Reconcile or Converge fails, the handler ends in error, the failed call is
\* the last call it makes and is made once, and the local record is unchanged.
C13_FailureKeepsRecord ==
    [][last'.op \in {"Create", "Read", "Update"}
          => /\ GraphReadFailed(last')
                   => /\ last'.err
                      /\ LastCall(last'.calls) = CallGetGraph
                      /\ rec' = rec
             /\ WriteFailed
                   => /\ last'.err
                      /\ LastCall(last'.calls) = CallPutGraph
                      /\ rec' = rec
             /\ ListingFailedIn
                   => /\ LastCall(last'.calls) = CallList
                      /\ last'.sent = NoBody
                      /\ rec' = rec
             /\ \A c \in {CallGetGraph, CallList, CallPutGraph} :
                   CallCount(last'.calls, c) <= 1]_vars

\* C13 witness: the graph read of a Reconcile failed after its listing
\* succeeded, on a record that holds an edge the filter drops.
C13_Witness ==
    /\ last.op = "Read"
    /\ last.err
    /\ GraphReadFailed(last)
    /\ rec.exists
    /\ \E p \in rec.permissions.elems : NestedBelowAnchor(listing, p.collection.v)

\* C14: a write made after another writer committed is rejected. A Converge
\* whose record is older than the server's revision ends in error with the
\* server and the record unchanged. When the server's revision moves during an
\* Apply, either the Apply's own write is the only commit since its graph read,
\* or the other writer's graph stands, the Apply ends in error and the record
\* is unchanged.
C14_NoSilentOverwrite ==
    [][/\ (last'.op = "Update" /\ last'.sent # NoBody /\ rec.revision < srvRev)
             => /\ last'.err
                /\ srvGraph' = srvGraph
                /\ srvRev' = srvRev
                /\ rec' = rec
       /\ (last'.op = "Create" /\ last'.sent # NoBody /\ srvRev' > last'.fetched)
             => \/ /\ ~last'.err
                   /\ srvRev' = last'.fetched + 1
                   /\ srvGraph' = last'.sent.Groups
                \/ /\ last'.err
                   /\ srvGraph' = OtherGraph
                   /\ rec' = rec]_vars

\* C14 witness: a Converge sent the revision of its record after another writer
\* had committed, and the other writer's graph is still on the server.
C14_Witness ==
    /\ last.op = "Update"
    /\ last.sent # NoBody
    /\ last.err
    /\ last.sent.Revision = rec.revision
    /\ rec.revision < srvRev
    /\ srvGraph = OtherGraph

\* A Reconcile that succeeds records the server's current revision, and a
\* Converge that follows it sends that revision: it is not rejected as stale.
C15_Recovery ==
    /\ (last'.op = "Read" /\ ~last'.err) => rec'.revision = srvRev'
    /\ (last.op = "Read" /\ ~last.err /\ last'.op = "Update" /\ last'.sent # NoBody)
          => last'.sent.Revision = srvRev

\* C15 (as claimed): a Reconcile replaces the recorded revision with the
\* server's current one, the Converge that follows is not rejected as stale, and
\* no Converge sends a revision the client did not receive from the server (one
\* above every revision the server has issued).
C15_SendsOnlyServerRevisions ==
    [][/\ C15_Recovery
       /\ (last'.op = "Update" /\ last'.sent # NoBody)
             => last'.sent.Revision <= srvRev]_vars

\* C15 (amended): a Reconcile replaces the recorded revision with the server's
\* current one and the Converge that follows is not rejected as stale; a
\* Converge sends exactly the recorded revision; the recorded revision changes
\* only to the server's revision (Reconcile, a write that succeeded) or to the
\* id given to ImportState, which is recorded without any call to the server.
C15_SendsRecordedRevision ==
    [][/\ C15_Recovery
       /\ (last'.op = "Update" /\ last'.sent # NoBody)
             => last'.sent.Revision = rec.revision
       /\ (rec'.exists /\ rec'.revision # rec.revision)
             => \/ /\ last'.op \in {"Read", "Create", "Update"}
                   /\ ~last'.err
                   /\ rec'.revision = srvRev'
                \/ /\ last'.op = "ImportState"
                   /\ last'.calls = <<>>
                   /\ rec'.revision \in {Atoi(id).v : id \in ImportIds}]_vars

\* C15 witness: a Reconcile recorded the server's revision after another writer
\* had replaced the graph this client wrote.
C15_Witness ==
    /\ last.op = "Read"
    /\ ~last.err
    /\ rec.revision = srvRev
    /\ srvRev = MaxRev
    /\ srvGraph = OtherGraph
    /\ rec.permissions.elems # {}

\* The entry is one the expander can derive for the declaration: its group has
\* an explicit edge and its resource is listed as a child of Public or Draft or
\* below one of them.
Derivable(permissions, t) ==
    /\ ApplyChildPermissions(last.plan.flag)
    /\ Atoi(t.group).v \in groupIdsSet(permissions)
    /\ \E c \in DOMAIN fetchChildCollections(listing) :
          /\ Itoa(c) = t.collection
          /\ \/ IsAnchorChild(fetchChildCollections(listing)[c])
             \/ NestedBelowAnchor(listing, t.collection)

C17_IgnoredGroupsExcluded ==
    /\ (Wrote(last) /\ last.sent # NoBody)
          => \A t \in last.sent.Groups : Atoi(t.group).v \notin IgnoredGroups
    /\ (last.op = "Read" /\ ~last.err)
          => \A p \in rec.permissions.elems : p.group.v \notin IgnoredGroups

\* C18: a Reconcile that succeeds records the edges of the record it found
\* without those on a resource listed two or more segments below Public or
\* Draft with a parent id other than 0: a subset of the record, with no edge
\* taken from the graph fetched. The revision it records is the one its graph
\* read returned, the server's current one.
C18_ReconcileNarrows ==
    [][(last'.op = "Read" /\ ~last'.err)
          => /\ ~rec'.permissions.null
             /\ rec'.permissions.elems =
                    {p \in rec.permissions.elems :
                        ~(/\ NestedBelowAnchor(listing, p.collection.v)
                          /\ ~ParentIsZero(listing, p.collection.v))}
             /\ rec'.permissions.elems \subseteq rec.permissions.elems
             /\ rec'.revision = last'.fetched
             /\ last'.fetched = srvRev]_vars

\* C18 witness: a Reconcile succeeded while the server holds entries that are
\* no edge of the record, and the record holds an edge.
C18_Witness ==
    /\ last.op = "Read"
    /\ ~last.err
    /\ rec.permissions.elems # {}
    /\ \E t \in srvGraph :
          \A p \in rec.permissions.elems :
             t # Entry(Itoa(p.group.v), p.collection.v, p.permission)

\* The tracked groups of the expansion check's input: those with an explicit edge.
XTracked == groupIdsSet(xin.permissions)

\* The names of the tracked groups whose lookup succeeded.
XNames == fetchGroupNames(XTracked, groupNames, xin.down)

XTree == fetchChildCollections(listing)

\* r is listed below the anchor child c and no explicit edge names it.
XDescendant(c, r) ==
    /\ r \in DOMAIN XTree
    /\ groupCollectionIdFromLocation(XTree[r].Location) = c
    /\ ~isChildCollectionInPlan(xin.permissions, Itoa(r))

XExpanded ==
    /\ xout.stage = "expanded"
    /\ ApplyChildPermissions(xin.flag)
    /\ ~xout.first.err

\* C19 (as claimed): for an anchor child c without explicit edges whose name is
\* equivalent to the name of a group g, also when the explicit input is empty,
\* the expansion gives g write and every other tracked group read on c, and
\* the same on every descendant of c that no explicit edge names.
C19_OwnedSubtree ==
    XExpanded =>
        \A c \in DOMAIN XTree : \A g \in DOMAIN groupNames :
            (/\ IsAnchorChild(XTree[c])
             /\ ~isChildCollectionInPlan(xin.permissions, Itoa(c))
             /\ normalizeName(groupNames[g]) = normalizeName(XTree[c].Name))
            => \A r \in {c} \cup {d \in DOMAIN XTree : XDescendant(c, d)} :
                  /\ Entry(Itoa(g), Itoa(r), LevelWrite) \in xout.first.body.Groups
                  /\ \A h \in XTracked \ {g} :
                        Entry(Itoa(h), Itoa(r), LevelRead) \in xout.first.body.Groups

\* C19 (amended): only tracked groups (those with an explicit edge somewhere in
\* the declaration) receive entries. For a child c listed directly under
\* Public or Draft that no explicit edge names, every tracked group whose name
\* was looked up and is equivalent to c's name gets write on c and every other
\* tracked group read; when c has a recorded owner, on every descendant of c
\* that no explicit edge names the recorded owner gets write and every other
\* tracked group read.
C19_OwnedSubtreeOfTracked ==
    XExpanded =>
        \A c \in DOMAIN XTree :
            (/\ XTree[c].Location \in {<<Itoa(PublicRoot)>>, <<Itoa(DraftRoot)>>}
             /\ ~isChildCollectionInPlan(xin.permissions, Itoa(c)))
            => /\ \A t \in xout.first.body.Groups : Atoi(t.group).v \in XTracked
               /\ \A g \in XTracked :
                     Entry(Itoa(g), Itoa(c),
                           IF NameMatches(XNames, g, XTree[c])
                           THEN LevelWrite ELSE LevelRead) \in xout.first.body.Groups
               /\ \A r \in DOMAIN XTree : \A g \in XTracked :
                     (XDescendant(c, r) /\ c \in DOMAIN xout.owner)
                     => Entry(Itoa(g), Itoa(r),
                              IF g = xout.owner[c]
                              THEN LevelWrite ELSE LevelRead) \in xout.first.body.Groups

\* C19 witness: two tracked groups, an owned anchor child that no explicit edge
\* names, and a descendant of it that no explicit edge names.
C19_Witness ==
    /\ XExpanded
    /\ Cardinality(XTracked) = 2
    /\ \E c \in DOMAIN xout.owner : \E r \in DOMAIN XTree :
          /\ XTree[c].Location \in {<<Itoa(PublicRoot)>>, <<Itoa(DraftRoot)>>}
          /\ ~isChildCollectionInPlan(xin.permissions, Itoa(c))
          /\ XDescendant(c, r)
          /\ Entry(Itoa(xout.owner[c]), Itoa(r), LevelWrite) \in xout.first.body.Groups

\* The description's normal form of one character: its lower-case form when it
\* is a letter or a digit, nothing otherwise.
C20_Char(ch) ==
    IF ch \in {"A", "a"} THEN <<"a">>
    ELSE IF ch = "1" THEN <<"1">>
    ELSE <<>>

RECURSIVE C20_Normal(_)
C20_Normal(name) ==
    IF name = <<>> THEN <<>> ELSE C20_Char(Head(name)) \o C20_Normal(Tail(name))

\* C20: the normal form of a name is the name lowercased, without spaces, '_'
\* and '-', and without any other character that is not a letter or a digit;
\* it depends on the name alone; "A-a", "a_a" and "A a" have the same normal
\* form; two names are equivalent exactly when their normal forms are equal.
C20_Normalization ==
    xout.stage = "normalized" =>
        /\ xout.group = C20_Normal(xin.group)
        /\ xout.collection = C20_Normal(xin.collection)
        /\ xin.group = xin.collection => xout.group = xout.collection
        /\ (xin.group \in Spellings /\ xin.collection \in Spellings)
           => (xout.group = xout.collection /\ xout.equivalent)
        /\ xout.equivalent <=> (xout.group = xout.collection)

\* C20 witness: a hyphenated mixed-case name and an underscored lower-case name
\* were normalised and found equivalent.
C20_Witness ==
    /\ xout.stage = "normalized"
    /\ xin.group = <<"A", "-", "a">>
    /\ xin.collection = <<"a", "_", "a">>
    /\ xout.group = <<"a", "a">>
    /\ xout.equivalent

\* C21: after a user Create or Update that ended without error, the recorded
\* id, email, first_name and last_name are those of the user the server
\* returned, and an Update leaves the recorded id as it was.
C21_UserMirrorsServer ==
    [][(userLast'.op \in {"Create", "Update"} /\ ~userLast'.err)
          => /\ userRec'.exists
             /\ userRec'.Id = Int64Value(userLast'.returned.Id)
             /\ userRec'.Email = StringValue(userLast'.returned.Email)
             /\ userRec'.FirstName = StringValue(userLast'.returned.FirstName)
             /\ userRec'.LastName = StringValue(userLast'.returned.LastName)
             /\ userLast'.returned = users'.table[userLast'.returned.Id]
             /\ userLast'.op = "Update" => userRec'.Id = userRec.Id]_vars

\* C21 witness: an Update succeeded on the user created with id 1, and the
\* e-mail recorded is the server's spelling, not the declared one.
C21_Witness ==
    /\ userLast.op = "Update"
    /\ ~userLast.err
    /\ userRec.Id = Int64Value(1)
    /\ userRec.Email = StringValue("a@x")
    /\ userRec.FirstName = StringValue("U")

\* C22 (as claimed): on every direct child c of Public or Draft, a tracked
\* group g without an explicit edge on (g, c) holds write exactly when g is the
\* recorded owner of c, and read otherwise; so at most one group holds a
\* derived write on c.
C22_StepThreeFollowsOwner ==
    XExpanded =>
        \A c \in DOMAIN XTree : \A g \in XTracked :
            (IsAnchorChild(XTree[c]) /\ ~isExplicitPermission(xin.permissions, g, Itoa(c)))
            => Entry(Itoa(g), Itoa(c),
                     IF c \in DOMAIN xout.owner /\ xout.owner[c] = g
                     THEN LevelWrite ELSE LevelRead) \in xout.first.body.Groups

\* r is listed below an anchor child that has a recorded owner.
XNested(r) ==
    /\ r \in DOMAIN XTree
    /\ groupCollectionIdFromLocation(XTree[r].Location) \in DOMAIN xout.owner

XSubtreeOwner(r) == xout.owner[groupCollectionIdFromLocation(XTree[r].Location)]

\* C23 (as claimed): on every resource r below an owned anchor child, a
\* tracked group g without an explicit edge on (g, r) holds write when it owns
\* the subtree and read otherwise, whether or not another group has an
\* explicit edge on r.
C23_StepFourPerPair ==
    XExpanded =>
        \A r \in DOMAIN XTree : \A g \in XTracked :
            (XNested(r) /\ ~isExplicitPermission(xin.permissions, g, Itoa(r)))
            => Entry(Itoa(g), Itoa(r),
                     IF g = XSubtreeOwner(r) THEN LevelWrite ELSE LevelRead)
                  \in xout.first.body.Groups

\* C23 (amended): on a resource r below an owned anchor child that no explicit
\* edge of any group names, every tracked group holds write when it owns the
\* subtree and read otherwise. An explicit edge of any group on r takes r out
\* of step 4 for every group: a group without an explicit edge on r then holds
\* no entry on r, unless r is also a direct child of Public or Draft.
C23_StepFourPerResource ==
    XExpanded =>
        \A r \in DOMAIN XTree : \A g \in XTracked :
            XNested(r) =>
               /\ ~isChildCollectionInPlan(xin.permissions, Itoa(r))
                     => Entry(Itoa(g), Itoa(r),
                              IF g = XSubtreeOwner(r) THEN LevelWrite ELSE LevelRead)
                           \in xout.first.body.Groups
               /\ (/\ isChildCollectionInPlan(xin.permissions, Itoa(r))
                   /\ ~isExplicitPermission(xin.permissions, g, Itoa(r))
                   /\ ~IsAnchorChild(XTree[r]))
                     => ~HasEntry(xout.first.body.Groups, Itoa(g), Itoa(r))

\* C23 witness: group 8 has an explicit edge on 60, below the anchor child 16
\* that group 7 owns; 7 holds no entry on 60, and on 61, which no edge names,
\* 7 holds write and 8 read.
C23_Witness ==
    /\ XExpanded
    /\ XTracked = {7, 8}
    /\ XNested(60) /\ XNested(61)
    /\ XSubtreeOwner(60) = 7
    /\ isExplicitPermission(xin.permissions, 8, "60")
    /\ ~HasEntry(xout.first.body.Groups, "7", "60")
    /\ Entry("7", "61", LevelWrite) \in xout.first.body.Groups
    /\ Entry("8", "61", LevelRead) \in xout.first.body.Groups

\* The permissions map after the direct children loop, before the recursive loop.
XAfterDirect ==
    ApplyDirectChildren(SeedGroups(xin.permissions), xin.permissions, XTree,
                        XTracked, XNames)

\* C24 (as claimed): an entry that holds write after the seeding or after the
\* direct children loop still holds write in the expanded graph.
C24_WriteIsKept ==
    XExpanded =>
        \A t \in SeedGroups(xin.permissions) \cup XAfterDirect :
            t.permission = LevelWrite => t \in xout.first.body.Groups

XFiltered == xout.stage = "filtered" /\ ApplyChildPermissions(xin.flag)

\* The edge's resource is listed with a non-zero parent two or more segments
\* beneath Public or Draft.
XInDroppedRegion(p) ==
    /\ ~p.collection.null
    /\ NestedBelowAnchor(listing, p.collection.v)
    /\ ~ParentIsZero(listing, p.collection.v)

\* The edges of the expanded graph that the declaration does not hold.
XDerivedEdges == AsExplicit(xout.first.body.Groups) \ xin.permissions

\* C25 (as claimed): the filter drops exactly the edges on listed resources
\* with a non-zero parent that lie two or more segments beneath Public or
\* Draft, keeps every other edge unchanged, and the edges the expander derives
\* are all on resources of that region.
C25_FilterBoundaryIsExpanders ==
    XFiltered =>
        /\ xout.filtered = {p \in AsExplicit(xout.first.body.Groups) : ~XInDroppedRegion(p)}
        /\ \A p \in XDerivedEdges : XInDroppedRegion(p)

\* C25 (amended): the filter drops exactly the edges on listed resources with
\* a non-zero parent that lie two or more segments beneath Public or Draft,
\* and keeps every other edge unchanged. The expander derives edges outside
\* that region as well: a derived edge is kept by the filter exactly when its
\* resource is listed directly under Public or Draft or has parent id 0.
C25_FilterBoundary ==
    XFiltered =>
        /\ xout.filtered = {p \in AsExplicit(xout.first.body.Groups) : ~XInDroppedRegion(p)}
        /\ \A p \in XDerivedEdges :
              /\ Atoi(p.collection.v).ok
              /\ Atoi(p.collection.v).v \in DOMAIN XTree
              /\ p \in xout.filtered <=>
                    \/ XTree[Atoi(p.collection.v).v].Location
                           \in {<<Itoa(PublicRoot)>>, <<Itoa(DraftRoot)>>}
                    \/ XTree[Atoi(p.collection.v).v].ParentID = 0

\* C25 witness: the filter kept the edge on the root sentinel and a derived
\* edge on the anchor child 16, and dropped the declared edge on 60 and a
\* derived edge on 61.
C25_Witness ==
    /\ XFiltered
    /\ Perm(Int64Value(7), StringValue("root"), LevelRead) \in xout.filtered
    /\ Perm(Int64Value(7), StringValue("16"), LevelWrite) \in xout.filtered \ xin.permissions
    /\ Perm(Int64Value(8), StringValue("60"), LevelRead) \in xin.permissions \ xout.filtered
    /\ Perm(Int64Value(7), StringValue("61"), LevelWrite) \in XDerivedEdges \ xout.filtered

\* The last segment of the listed resource's location is a non-negative integer.
C26_LocationParses(c) ==
    /\ c.location # <<>>
    /\ Atoi(c.location[Len(c.location)]).ok
    /\ Atoi(c.location[Len(c.location)]).v >= 0

C26_IdIsNumeric(c) == c.id.isInt \/ (c.id.s # "root" /\ Atoi(c.id.s).ok)

C26_NumericId(c) == IF c.id.isInt THEN c.id.n ELSE Atoi(c.id.s).v

C26_Kept(c) == ~c.personal /\ C26_LocationParses(c) /\ C26_IdIsNumeric(c)

\* C26: the tree holds exactly the listed resources that are not personal,
\* whose location is not empty and ends in a non-negative integer, and whose
\* id is numeric; a node's parent id is the last segment of its location; a
\* resource left out has no recorded owner and receives no derived edge, and
\* the resources kept are in the tree whatever else the listing holds.
C26_TreeBuilder ==
    /\ DOMAIN XTree = {C26_NumericId(listing[i]) :
                          i \in {j \in DOMAIN listing : C26_Kept(listing[j])}}
    /\ \A i \in DOMAIN listing :
          C26_Kept(listing[i]) =>
             XTree[C26_NumericId(listing[i])] =
                 CollectionInfo(C26_NumericId(listing[i]),
                                Atoi(listing[i].location[Len(listing[i].location)]).v,
                                listing[i].name, listing[i].location)
    /\ XExpanded =>
          \A i \in DOMAIN listing :
             (C26_IdIsNumeric(listing[i]) /\ ~C26_Kept(listing[i]))
             => /\ C26_NumericId(listing[i]) \notin DOMAIN xout.owner
                /\ \A p \in XDerivedEdges :
                      p.collection.v # Itoa(C26_NumericId(listing[i]))

\* C26 witness: the listing holds a resource whose location does not parse,
\* a personal one, the root sentinel and one with a non-numeric id; the
\* expansion left them out and derived edges on the anchor children 16 and 17.
C26_Witness ==
    /\ XExpanded
    /\ \E i \in DOMAIN listing :
          ~listing[i].personal /\ listing[i].location # <<>>
          /\ ~C26_LocationParses(listing[i])
    /\ \E i \in DOMAIN listing : listing[i].personal
    /\ \E i \in DOMAIN listing : ~C26_IdIsNumeric(listing[i])
    /\ DOMAIN XTree = {16, 17}
    /\ \E p \in XDerivedEdges : p.collection.v = "16"
    /\ \E p \in XDerivedEdges : p.collection.v = "17"

\* C27: every resource with a recorded owner is a direct child of Public or
\* Draft whose normalized name equals the normalized name of the owning group;
\* the owner is a tracked group whose name lookup succeeded; a resource has
\* one recorded owner at most.
C27_OwnershipInvariant ==
    xout.stage # "input" =>
        /\ xout.owner \in [DOMAIN xout.owner -> XTracked]
        /\ \A c \in DOMAIN xout.owner :
              /\ c \in DOMAIN XTree
              /\ XTree[c].ParentID \in {PublicRoot, DraftRoot}
              /\ xout.owner[c] \in DOMAIN groupNames
              /\ xout.owner[c] \notin xin.down
              /\ normalizeName(groupNames[xout.owner[c]]) = normalizeName(XTree[c].Name)

\* C27 witness: two tracked groups have names equivalent to the name of the
\* anchor child 16, and one of them is its recorded owner.
C27_Witness ==
    /\ xout.stage = "expanded"
    /\ XTracked = {7, 8}
    /\ 16 \in DOMAIN xout.owner
    /\ xout.owner[16] = 8
    /\ NameMatches(XNames, 7, XTree[16])
    /\ NameMatches(XNames, 8, XTree[16])

\* The anchor child c has a name equivalent to no tracked group's name.
XUnmatched(c) ==
    /\ c \in DOMAIN XTree
    /\ IsAnchorChild(XTree[c])
    /\ \A g \in XTracked \cap DOMAIN groupNames :
          normalizeName(groupNames[g]) # normalizeName(XTree[c].Name)

\* r is listed in the subtree below c.
XBelow(c, r) ==
    /\ r \in DOMAIN XTree
    /\ groupCollectionIdFromLocation(XTree[r].Location) = c

\* C28 (as claimed): an anchor child whose name is equivalent to no tracked
\* group's name has no recorded owner, and the expanded graph holds no derived
\* edge on any resource in the subtree below it.
C28_UnownedSubtreeUntouched ==
    XExpanded =>
        \A c \in DOMAIN XTree :
            XUnmatched(c) =>
               /\ c \notin DOMAIN xout.owner
               /\ \A p \in XDerivedEdges :
                     ~XBelow(c, Atoi(p.collection.v).v)

\* C28 (amended): such an anchor child has no recorded owner, and the
\* expanded graph holds no derived edge on a resource in the subtree below it,
\* except on a resource that is itself a direct child of Public or Draft by its
\* parent id, which receives the edges of step 3.
C28_UnownedSubtreeNotPropagated ==
    XExpanded =>
        \A c \in DOMAIN XTree :
            XUnmatched(c) =>
               /\ c \notin DOMAIN xout.owner
               /\ \A p \in XDerivedEdges :
                     XBelow(c, Atoi(p.collection.v).v)
                     => IsAnchorChild(XTree[Atoi(p.collection.v).v])

\* C28 witness: the anchor child 16 matches no tracked group and 60 and 61
\* lie below it; the expansion derived edges on 16 and 17 and none on 60, 61.
C28_Witness ==
    /\ XExpanded
    /\ XTracked # {}
    /\ XUnmatched(16)
    /\ XBelow(16, 60) /\ XBelow(16, 61)
    /\ 17 \in DOMAIN xout.owner
    /\ \E p \in XDerivedEdges : p.collection.v = "16"
    /\ \A p \in XDerivedEdges : p.collection.v \notin {"60", "61"}

\* C29: when the name lookup of a tracked group fails during Apply or
\* Converge, the graph write is still issued as the handler's last call, the
\* group is the recorded owner of no resource, and every derived edge the
\* group receives is read.
C29_LookupFailureIsNotFatal ==
    (Wrote(last) /\ last.lookupFailed # {}) =>
        /\ last.sent # NoBody
        /\ LastCall(last.calls) = CallPutGraph
        /\ CallCount(last.calls, CallPutGraph) = 1
        /\ \A g \in last.lookupFailed :
              /\ g \in groupIdsSet(last.plan.permissions.elems)
              /\ \A t \in last.sent.Groups :
                    (/\ t.group = Itoa(g)
                     /\ ~isExplicitPermission(last.plan.permissions.elems, g, t.collection))
                    => t.permission = LevelRead
              /\ \A owner \in OwnershipMaps(
                                  fetchChildCollections(listing),
                                  groupIdsSet(last.plan.permissions.elems),
                                  fetchGroupNames(groupIdsSet(last.plan.permissions.elems),
                                                  groupNames, last.lookupFailed)) :
                    \A c \in DOMAIN owner : owner[c] # g

\* C29 witness: the lookup of group 7 failed, whose name is equivalent to the
\* name of the anchor child 16; the write was accepted and gave group 7 a
\* derived read on 17.
C29_Witness ==
    /\ Wrote(last)
    /\ last.lookupFailed = {7}
    /\ ~last.err
    /\ normalizeName(groupNames[7]) = normalizeName(fetchChildCollections(listing)[16].Name)
    /\ Entry("7", "17", LevelRead) \in last.sent.Groups
    /\ srvGraph = last.sent.Groups

\* The group ids left out of the mapping.
C30_Ignored ==
    IF xin.data.ignoredGroups.null THEN {AdministratorsPermissionsGroupId}
    ELSE xin.data.ignoredGroups.elems

\* The entry is one the mapping has to turn into an edge.
C30_Mapped(t) ==
    /\ t.permission # LevelNone
    /\ ~(Atoi(t.group).ok /\ Atoi(t.group).v \in C30_Ignored)

\* C30: for a graph whose group keys are integers, the mapping stores the
\* graph's revision and exactly one edge (g, r, level) for every entry whose
\* level is not none and whose group is not ignored, and no other edge; an
\* entry of level none never becomes an edge.
C30_GraphToModel ==
    (xout.stage = "mapped" /\ \A t \in xin.graph.Groups : Atoi(t.group).ok) =>
        /\ ~xout.result.err
        /\ xout.result.revision = Int64Value(xin.graph.Revision)
        /\ ~xout.result.permissions.null
        /\ \A t \in xin.graph.Groups :
              C30_Mapped(t) <=>
                 Perm(Int64Value(Atoi(t.group).v), StringValue(t.collection), t.permission)
                    \in xout.result.permissions.elems
        /\ \A p \in xout.result.permissions.elems :
              /\ p.permission # LevelNone
              /\ \E t \in xin.graph.Groups :
                    /\ C30_Mapped(t)
                    /\ p = Perm(Int64Value(Atoi(t.group).v), StringValue(t.collection),
                                t.permission)
        /\ Cardinality(xout.result.permissions.elems)
              = Cardinality({t \in xin.graph.Groups : C30_Mapped(t)})

\* C30 witness: a graph with an entry of level none, an entry of an ignored
\* group and an entry that became the only edge of the model.
C30_Witness ==
    /\ xout.stage = "mapped"
    /\ xin.data.ignoredGroups.null
    /\ xin.graph.Groups = {Entry("7", "60", LevelNone), Entry("2", "16", LevelWrite),
                           Entry("8", "root", LevelRead)}
    /\ xout.result.permissions
          = SetValue({Perm(Int64Value(8), StringValue("root"), LevelRead)})
    /\ xout.result.revision = Int64Value(xin.graph.Revision)

C32_Declared == {p.group.v : p \in {q \in xin.permissions : ~q.group.null}}

\* C32: every group of the graph the expander returns has an explicit edge in
\* the declaration, and every edge of that graph which the declaration does
\* not hold has level read or write.
C32_NoNewGroup ==
    (xout.stage = "expanded" /\ ~xout.first.err) =>
        /\ \A t \in xout.first.body.Groups : Atoi(t.group).v \in C32_Declared
        /\ \A p \in XDerivedEdges : p.permission \in {LevelRead, LevelWrite}

\* C32 witness: propagation derived a write edge and a read edge for the one
\* declared group while another group with a name has no edge at all.
C32_Witness ==
    /\ XExpanded
    /\ C32_Declared = {7}
    /\ 8 \in DOMAIN groupNames
    /\ \E p, q \in XDerivedEdges : p.permission = LevelWrite /\ q.permission = LevelRead
    /\ \A t \in xout.first.body.Groups : t.group = "7"

\* C33 (as claimed): whichever matching group the ownership loop meets first,
\* the expander returns the same graph for the same listing, group names and
\* declaration, also when two tracked groups have equivalent names.
C33_Deterministic ==
    XExpanded =>
        \A owner \in OwnerChoices(Model(0, xin.permissions, xin.flag), XNet) :
            makeCollectionPermissionsGraphFromModel(
                Model(0, xin.permissions, xin.flag), NoState, XNet, owner).body.Groups
              = xout.first.body.Groups

\* The groups the user is a member of on the server.
MemberGroupsOf(lists) == {lists[MemberUser][i].Id : i \in DOMAIN lists[MemberUser]}

\* The server's list shows what the handler op of resource m did.
MemberReflects(lists, m, op) ==
    IF op = "Create" THEN MemberGroup[m] \in MemberGroupsOf(lists)
    ELSE MemberGroup[m] \notin MemberGroupsOf(lists)

\* C34 (as claimed): when a Create or Delete of one resource succeeds and,
\* between its GET and its PUT, a Create or Delete of the other resource of the
\* same user succeeded and nobody else wrote, at least one of the two being a
\* Create, the user's memberships on the server reflect both operations.
C34_NoLostUpdate ==
    [][\A s, t \in MemberResources :
          (/\ s # t
           /\ mem[s].pc = "put" /\ mem'[s].pc = "idle"
           /\ mem'.last.res = s /\ ~mem'.last.err
           /\ mem[s].overlap.by = t
           /\ {mem[s].op, mem[s].overlap.op} \in {{"Create"}, {"Create", "Delete"}})
          => /\ MemberReflects(memberships', s, mem[s].op)
             /\ MemberReflects(memberships', t, mem[s].overlap.op)]_vars

\* The memberships of a list outside group g, in order and with their flags.
C35_Others(list, g) == SelectSeq(list, LAMBDA x : x.Id # g)

\* C35: the PUT of a membership Create, Update or Delete of resource m, when
\* nobody wrote the user since the handler's GET, leaves the user's e-mail and
\* names, the user's memberships in every other group (group id, flag and
\* order) and every other user's memberships as they were; the steps of the
\* handlers before the PUT change nothing on the server.
C35_MembershipFrame ==
    [][\A m \in MemberResources :
          /\ (mem[m].pc = "put" /\ mem'[m].pc = "idle" /\ mem[m].overlap = NoOverlap)
                => /\ users' = users
                   /\ C35_Others(memberships'[MemberUser], MemberGroup[m])
                         = C35_Others(memberships[MemberUser], MemberGroup[m])
                   /\ \A u \in DOMAIN memberships \ {MemberUser} :
                         memberships'[u] = memberships[u]
          /\ (mem[m].pc = "idle" /\ mem'[m] # mem[m])
                => (users' = users /\ memberships' = memberships)]_vars

\* C35 witness: a Delete of the membership in group 7 ended well and the user
\* is still a member of the group of all users and of group 8, whose resource
\* holds its record.
C35_Witness ==
    /\ mem.last = MemberOutcome("m7", "Delete", FALSE, "", TRUE)
    /\ ~mem["m7"].rec.exists
    /\ mem["m8"].rec.exists /\ mem["m8"].pc = "idle"
    /\ memberships[MemberUser] = <<UserGroupMembership(AllUsersGroup, FALSE),
                                   UserGroupMembership(8, FALSE)>>
    /\ users.table[MemberUser] = User(MemberUser, "a@x", "T", "U")

\* The step is the part of a Create of resource m up to its PUT.
C36_CreateReads(m) ==
    /\ mem[m].pc = "idle"
    /\ ~mem[m].rec.exists
    /\ \A n \in MemberResources \ {m} : mem'[n] = mem[n]
    /\ \/ mem'[m].pc = "put" /\ mem'[m].op = "Create"
       \/ mem'.last.res = m /\ mem'.last.op = "Create" /\ mem'[m].pc = "idle"

\* No group occurs twice in a user's memberships.
C36_NoDuplicate(lists) ==
    \A u \in DOMAIN lists : \A i, j \in DOMAIN lists[u] :
        lists[u][i].Id = lists[u][j].Id => i = j

\* C36: a Create for a user who is a member of the group already ends with an
\* error, which is "Membership already exists" unless reading the user failed,
\* sends no PUT, changes nothing on the server and records nothing; and no
\* step leaves a user with two memberships in the same group.
C36_CreateOnExisting ==
    [][/\ \A m \in MemberResources :
            (C36_CreateReads(m) /\ MemberGroup[m] \in MemberGroupsOf(memberships))
            => /\ mem'[m].pc = "idle"
               /\ mem'.last.err
               /\ mem'.last.summary \in {"Membership already exists", "get user"}
               /\ ~mem'.last.wrote
               /\ ~mem'[m].rec.exists
               /\ memberships' = memberships /\ users' = users
       /\ C36_NoDuplicate(memberships')]_vars

\* C36 witness: a Create found the user in group 7 already and ended with
\* "Membership already exists".
C36_Witness ==
    /\ mem.last = MemberOutcome("m7", "Create", TRUE, "Membership already exists", FALSE)
    /\ ~mem["m7"].rec.exists
    /\ 7 \in MemberGroupsOf(memberships)

\* The step is a Read of the user resource.
C37_UserReads ==
    /\ userRec.exists
    /\ userLast'.op = "Read"
    /\ mem' = mem /\ memberships' = memberships

\* The step is a Read of membership resource m.
C37_MemberReads(m) ==
    /\ mem[m].rec.exists
    /\ mem'.last.res = m /\ mem'.last.op = "Read"
    /\ userRec' = userRec /\ userLast' = userLast /\ memberships' = memberships

\* The server holds the user and lists the group among the user's memberships.
C37_IsMember(u, g) ==
    /\ u \in DOMAIN users.table
    /\ \E i \in DOMAIN memberships[u] : memberships[u][i].Id = g

\* C37: a user Read answered 404 or 204 ends without an error and removes the
\* record; a membership Read that ends without an error removes the record
\* when the server does not hold the user or does not list the group among
\* the user's memberships, and for a user that never existed it ends so
\* unless the call itself failed; a Read of either kind that ends without an
\* error leaves a record only of a user the server holds, or of a membership
\* the server lists.
C37_ReadDropsAbsent ==
    [][/\ C37_UserReads =>
            /\ userLast'.status \in {404, 204} => (~userLast'.err /\ ~userRec'.exists)
            /\ (~userLast'.err /\ userRec'.exists) =>
                  /\ userRec'.Id = userRec.Id
                  /\ userRec.Id.v \in DOMAIN users.table
       /\ \A m \in MemberResources : C37_MemberReads(m) =>
            /\ (/\ ~mem'.last.err
                /\ ~C37_IsMember(mem[m].rec.UserId.v, mem[m].rec.GroupId.v))
                  => ~mem'[m].rec.exists
            /\ mem[m].rec.UserId.v >= users.next =>
                  \/ ~mem'.last.err /\ ~mem'[m].rec.exists
                  \/ mem'.last.err /\ mem'.last.summary = "get user"
            /\ (~mem'.last.err /\ mem'[m].rec.exists) =>
                  /\ mem'[m].rec.UserId = mem[m].rec.UserId
                  /\ mem'[m].rec.GroupId = mem[m].rec.GroupId
                  /\ C37_IsMember(mem[m].rec.UserId.v, mem[m].rec.GroupId.v)]_vars

\* C37 witness: the user was deleted and a user Read answered 204 removed the
\* record; the last membership Read found group 7 missing and removed its
\* record.
C37_Witness ==
    /\ userLast = UserOutcome("Read", FALSE, 204, NoUser)
    /\ ~userRec.exists
    /\ MemberUser \notin DOMAIN users.table
    /\ mem.last = MemberOutcome("m7", "Read", FALSE, "", FALSE)
    /\ ~mem["m7"].rec.exists
    /\ 7 \notin MemberGroupsOf(memberships)

====
